---- MODULE Spec2Model ----
(***************************************************************************)
(* The interactive sessions of src/handlers/commands.py (CommandHandler):  *)
(* quiz, debate, whiteboard and flashcards.  Every coroutine is modelled   *)
(* as a program counter that moves from one await to the next; an await    *)
(* on the chat API (ctx.send, add_reaction, edit) may raise.  The session  *)
(* kinds share no state, so each has a specification of its own, in which  *)
(* the variables of the others keep their initial values.                  *)
(***************************************************************************)
EXTENDS Integers, Sequences, FiniteSets, TLC

(* ------------------------------ bounds --------------------------------- *)
MaxUsers == 2
MaxQuestions == 3
MaxReactions == 3
MaxEvents == 5
MaxCards == 3
MaxControls == 4
MaxTasks == 2
MaxSegments == 2
MaxMessages == 2

(* Discord user ids are positive snowflakes; 0 stands for Python's None.   *)
Users == 1..MaxUsers
NoUser == 0

VARIABLES
  (* quiz: create_quiz and run_quiz *)
  active_quizzes,   \* self.active_quizzes: the set of quiz ids in the store
  questions,        \* quiz_data["questions"]: the correct label of each question
  scores,           \* quiz_data["scores"]: a dict user id -> points
  participants,     \* quiz_data["participants"]
  started,          \* quiz_data["started"]
  current_question, \* quiz_data["current_question"]
  jnow,             \* seconds since the join window opened, while it is open
  join_deadline,    \* when the pending wait_for of the join loop times out
  n_joins,          \* the join reactions delivered while the window is open
  window_closed,    \* history: the join loop of the session was left
  qpc,              \* where create_quiz / run_quiz is suspended
  qi,               \* run_quiz's loop index i (0-based)
  answered_users,   \* run_quiz's answered_users of the current question
  elapsed,          \* loop.time() - start_time of the current question, in ticks
  selected_option,  \* run_quiz's selected_option of the last answer evaluated
  reveals,          \* history: the questions (1-based) whose answer was revealed
  lb_after,         \* history: the questions after which the standings were shown
  final_shown,      \* history: the final rankings were sent
  quiz_raised,      \* history: some awaited step of the quiz raised
  (* quiz scoring on its own *)
  sc_time,          \* time_taken of two answers of one window, in ticks
  sc_correct,       \* whether each selected the correct option
  sc_points,        \* the points each added (-1: not evaluated yet)
  sc_n,             \* how many of the two were evaluated
  (* debate: start_debate and run_debate *)
  active_debates,   \* self.active_debates: the set of debate ids in the store
  debate_format,    \* debate_data["format"]
  debate_participants, \* debate_data["participants"]: side -> user id or None
  current_phase,    \* debate_data["current_phase"]
  dpc,              \* where start_debate / run_debate is suspended
  dnow,             \* the clock, in seconds since the command
  wait_deadline,    \* when the pending wait_for of line 953 times out
  d_emoji,          \* start_debate's reaction: the emoji wait_for returned last
  d_user,           \* start_debate's user: the user wait_for returned last
  join_opened,      \* history: when the bot began to wait for participants
  n_reactions,      \* history: the reactions delivered to the debate message
  (* whiteboard: start_whiteboard, end_whiteboard and on_message *)
  active_whiteboards, \* self.active_whiteboards: the session ids in the store
  wb_data,          \* the whiteboard_data dict of every session created so far
  wb_end,           \* the end_whiteboard calls in progress, in the order they began
  wb_msg,           \* the on_message calls suspended in an await
  wb_ended,         \* history: what each returned end_whiteboard call did
  wb_count,         \* history: the end_whiteboard calls and image messages so far
  wb_last_start,    \* history: the last start_whiteboard command and its reply
  (* flashcards: create_flashcards, on_reaction_add, end_flashcard_session *)
  active_flashcard_sets, \* self.active_flashcard_sets: the set ids in the store
  cards,            \* flashcard_set["cards"]: the difficulty of each card
  current_card,     \* flashcard_set["current_card"]
  current_message,  \* flashcard_set["current_message"]: a message id or None
  stats,            \* flashcard_set["stats"]
  fpc,              \* where create_flashcards is suspended
  fc_tasks,         \* the on_reaction_add calls suspended at an await
  fc_next_msg,      \* the id the next card message gets
  fc_controls,      \* history: the control reactions handled so far
  idx_log,          \* history: current_card at creation and after each advance
  fc_summary,       \* history: the last summary end_flashcard_session built
  fc_end_returned,  \* history: some end_flashcard_session call has returned
  (* podcast audio: create_podcast and _generate_audio_with_retry *)
  apc,              \* where create_podcast is suspended
  script_len,       \* len(script)
  seg,              \* the index i of the segment of the loop of line 295
  audio_segments,   \* the segments whose speech was appended to audio_segments
  warned,           \* history: the segments whose failure was reported
  attempt,          \* attempt of _generate_audio_with_retry
  retry_delay,      \* retry_delay of _generate_audio_with_retry
  call_outcomes,    \* history: what generate_audio did at each attempt of the call
  call_waits,       \* history: the sleeps of the call
  call_result,      \* history: how the call ended
  pnow,             \* asyncio.get_event_loop().time(), in seconds
  last_request_time,\* self.last_request_time
  prev_start,       \* history: when the speech request before the last began
  last_start,       \* history: when the last speech request began
  temp_files,       \* the temporary audio files on disk
  podcast_sent,     \* history: the podcast file was sent to the channel
  (* quiz generation: create_quiz up to the insertion of the session *)
  gpc,              \* where create_quiz is suspended before the session exists
  num_questions,    \* create_quiz's num_questions
  gen_calls,        \* history: the calls of generate_quiz_questions, in order
  payload,          \* the reply the model gave to the last call
  gen_questions,    \* create_quiz's questions: what the last call returned
  (* several sessions at a time *)
  quiz_table,       \* self.active_quizzes: quiz id -> the fields reactions use
  debate_table,     \* self.active_debates: debate id -> the fields reactions use
  set_table,        \* self.active_flashcard_sets: set id -> the fields reactions use
  posted,           \* the messages the bot has sent: their ids are 1..posted
  delivered,        \* the reaction_add events delivered so far
  pending_shows,    \* the calls of on_reaction_add suspended at a send
  reacted_msg,      \* history: the message of the last reaction_add event
  (* chunked results: summarize, run_debate and end_whiteboard *)
  cpc,              \* where the sending of the chunks is suspended
  ch_text,          \* summary / final_summary: the text to send
  ch_chunks,        \* chunks: the list the comprehension built
  ch_sent,          \* history: the chunks sent so far, in the order of the sends
  (* speech requests: AudioGenerator.generate_audio *)
  ga_calls,         \* history: the calls of generate_audio, with what each got and gave
  (* the quiz leaderboard: display_leaderboard *)
  lb_list,          \* history: the rows of the last leaderboard sent, in their order
  (* local files (utils/storage.py) *)
  stored,           \* the files on disk, each [dir, name, ctime]
  clock,            \* the time now, in hours
  (* reactions dispatched while run_quiz awaits a send *)
  missed,           \* history: the option reactions no wait_for listened for
  (* flashcards: the message of the last judgment *)
  last_judged       \* history: the message of the last mark or next-card handled

join_vars == <<current_question, jnow, join_deadline, n_joins, window_closed>>
quiz_vars == <<active_quizzes, questions, scores, participants, started, qpc, qi,
               answered_users, elapsed, selected_option, reveals, lb_after,
               final_shown, quiz_raised, join_vars>>
score_vars == <<sc_time, sc_correct, sc_points, sc_n>>
debate_vars == <<active_debates, debate_format, debate_participants, current_phase,
                 dpc, dnow, wait_deadline, d_emoji, d_user, join_opened,
                 n_reactions>>

wb_vars == <<active_whiteboards, wb_data, wb_end, wb_msg, wb_last_start,
             wb_ended, wb_count>>
fc_vars == <<active_flashcard_sets, cards, current_card, current_message, stats,
             fpc, fc_tasks, fc_next_msg, fc_controls, idx_log, fc_summary,
             fc_end_returned>>

audio_vars == <<apc, script_len, seg, audio_segments, warned, attempt, retry_delay,
                call_outcomes, call_waits, call_result, pnow, last_request_time,
                prev_start, last_start, temp_files, podcast_sent>>

gen_vars == <<gpc, num_questions, gen_calls, payload, gen_questions>>

sess_vars == <<quiz_table, debate_table, set_table, posted, delivered, pending_shows,
               reacted_msg>>

chunk_vars == <<cpc, ch_text, ch_chunks, ch_sent>>

speech_vars == <<ga_calls>>

lb_vars == <<lb_list>>

store_vars == <<stored, clock>>

miss_vars == <<missed>>

judge_vars == <<last_judged>>

vars == <<quiz_vars, score_vars, debate_vars, wb_vars, fc_vars, audio_vars,
          gen_vars, sess_vars, chunk_vars, speech_vars, lb_vars, store_vars,
          miss_vars, judge_vars>>

(* What an action of one session kind leaves alone. *)
not_quiz == <<score_vars, debate_vars, wb_vars, fc_vars, audio_vars,
              gen_vars, sess_vars, chunk_vars, speech_vars, lb_vars,
              store_vars, miss_vars, judge_vars>>
(* The same without the rows of the leaderboard. *)
not_quiz_lb == <<score_vars, debate_vars, wb_vars, fc_vars, audio_vars,
                 gen_vars, sess_vars, chunk_vars, speech_vars, store_vars,
                 miss_vars, judge_vars>>
not_score == <<quiz_vars, debate_vars, wb_vars, fc_vars, audio_vars,
               gen_vars, sess_vars, chunk_vars, speech_vars, lb_vars,
               store_vars, miss_vars, judge_vars>>
not_debate == <<quiz_vars, score_vars, wb_vars, fc_vars, audio_vars,
                gen_vars, sess_vars, chunk_vars, speech_vars, lb_vars,
                store_vars, miss_vars, judge_vars>>
not_wb == <<quiz_vars, score_vars, debate_vars, fc_vars, audio_vars,
            gen_vars, sess_vars, chunk_vars, speech_vars, lb_vars,
            store_vars, miss_vars, judge_vars>>
not_fc == <<quiz_vars, score_vars, debate_vars, wb_vars, audio_vars,
            gen_vars, sess_vars, chunk_vars, speech_vars, lb_vars,
            store_vars, miss_vars, judge_vars>>
(* The same without the message of the last judgment. *)
not_fc_judged == <<quiz_vars, score_vars, debate_vars, wb_vars, audio_vars,
                   gen_vars, sess_vars, chunk_vars, speech_vars, lb_vars,
                   store_vars, miss_vars>>
not_audio == <<quiz_vars, score_vars, debate_vars, wb_vars, fc_vars,
               gen_vars, sess_vars, chunk_vars, speech_vars, lb_vars,
               store_vars, miss_vars, judge_vars>>
not_gen == <<score_vars, debate_vars, wb_vars, fc_vars, audio_vars,
             sess_vars, chunk_vars, speech_vars, lb_vars, store_vars,
             miss_vars, judge_vars>>
not_sess == <<quiz_vars, score_vars, debate_vars, wb_vars, fc_vars,
              audio_vars, gen_vars, chunk_vars, speech_vars, lb_vars,
              store_vars, miss_vars, judge_vars>>
not_chunk == <<quiz_vars, score_vars, debate_vars, wb_vars, fc_vars,
               audio_vars, gen_vars, sess_vars, speech_vars, lb_vars,
               store_vars, miss_vars, judge_vars>>
not_speech == <<quiz_vars, score_vars, debate_vars, wb_vars, fc_vars,
                audio_vars, gen_vars, sess_vars, chunk_vars, lb_vars,
                store_vars, miss_vars, judge_vars>>

not_store == <<quiz_vars, score_vars, debate_vars, wb_vars, fc_vars,
               audio_vars, gen_vars, sess_vars, chunk_vars, speech_vars,
               lb_vars, miss_vars, judge_vars>>

(* ======================================================================= *)
(*                                  QUIZ                                   *)
(* ======================================================================= *)
QuizId == 1
Labels == {"A", "B", "C", "D"}
(* The correct labels of the generated questions, in question order.       *)
QuestionBank == <<"A", "D", "B", "C">>

(* Time is counted in binary ticks, as loop.time() is a binary float: a    *)
(* tick is 2^-10 s.  Every multiple of a tick below 10 s is a double, and  *)
(* 10 - t and (10 - t) * 10 are then exact in double arithmetic.           *)
TicksPerSecond == 2^10
(* The tick nearest to num/den seconds (what float("9.9") does to 9.9).    *)
NearestTick(num, den) == (2 * num * TicksPerSecond + den) \div (2 * den)
(* The answer window of a question: 10 seconds.                            *)
AnswerWindow == 10 * TicksPerSecond
(* The instants at which a reaction may reach run_quiz.                    *)
AnswerTimes == {0, NearestTick(99, 10)}

NoOption == "-"

InitQuiz ==
  /\ active_quizzes = {}
  /\ questions = <<>>
  /\ scores = <<>>
  /\ participants = {}
  /\ started = FALSE
  /\ qpc = "idle"
  /\ qi = 0
  /\ answered_users = {}
  /\ elapsed = 0
  /\ selected_option = NoOption
  /\ reveals = <<>>
  /\ lb_after = {}
  /\ final_shown = FALSE
  /\ quiz_raised = FALSE
  /\ current_question = 0
  /\ jnow = 0
  /\ join_deadline = 0
  /\ n_joins = 0
  /\ window_closed = FALSE
  /\ lb_list = <<>>

(* dict assignment d[k] = v *)
DictSet(d, k, v) == [x \in DOMAIN d \cup {k} |-> IF x = k THEN v ELSE d[x]]
(* dict.get(k, default) *)
DictGet(d, k, default) == IF k \in DOMAIN d THEN d[k] ELSE default

(* create_quiz, lines 630-640: the questions were generated; the session   *)
(* is saved in the store.                                                  *)
CreateQuiz(qs) ==
  /\ qpc = "idle"
  /\ active_quizzes' = active_quizzes \cup {QuizId}
  /\ questions' = qs
  /\ scores' = <<>>
  /\ participants' = {}
  /\ started' = FALSE
  /\ current_question' = 0
  /\ qpc' = "invite"
  /\ window_closed' = FALSE
  /\ UNCHANGED not_quiz
  /\ UNCHANGED <<jnow, join_deadline, n_joins>>
  /\ UNCHANGED <<qi, answered_users, elapsed, selected_option, reveals, lb_after,
                 final_shown, quiz_raised>>

(* create_quiz, line 676: timeout=10.0.                                    *)
JoinTimeoutSeconds == 10
(* How long after the wait_for began a join reaction may arrive.           *)
JoinDelays == {0, JoinTimeoutSeconds - 1}
(* create_quiz, lines 674-676: every turn of the loop calls wait_for with  *)
(* a fresh timeout.                                                        *)
Rearmed(now) == now + JoinTimeoutSeconds
(* The clock of the join window is not read once the loop is left.         *)
WindowForgotten ==
  /\ jnow' = 0 /\ join_deadline' = 0 /\ n_joins' = 0
  /\ UNCHANGED <<current_question, window_closed>>

(* create_quiz, lines 660-676: the invitation is sent and the first        *)
(* wait_for of the join loop begins.                                       *)
QuizInvite(raises) ==
  /\ qpc = "invite"
  /\ qpc' = IF raises THEN "create_error" ELSE "join_wait"
  /\ quiz_raised' = (quiz_raised \/ raises)
  /\ jnow' = 0
  /\ join_deadline' = IF raises THEN 0 ELSE JoinTimeoutSeconds
  /\ UNCHANGED not_quiz
  /\ UNCHANGED <<current_question, n_joins, window_closed>>
  /\ UNCHANGED <<active_quizzes, questions, scores, participants, started, qi,
                 answered_users, elapsed, selected_option, reveals, lb_after, final_shown>>

(* create_quiz, lines 676-678: a join reaction of a user who is no bot     *)
(* arrives d seconds after the wait_for began, before its timeout.         *)
JoinReaction(u, d) ==
  /\ qpc = "join_wait"
  /\ n_joins < MaxReactions
  /\ jnow + d < join_deadline
  /\ jnow' = jnow + d
  /\ n_joins' = n_joins + 1
  /\ participants' = participants \cup {u}
  /\ scores' = DictSet(scores, u, 0)
  /\ qpc' = "join_ack"
  /\ UNCHANGED not_quiz
  /\ UNCHANGED <<current_question, join_deadline, window_closed>>
  /\ UNCHANGED <<active_quizzes, questions, started, qi, answered_users, elapsed,
                 selected_option, reveals, lb_after, final_shown, quiz_raised>>

(* A faulty close that starts the quiz without a participant.              *)
JoinClosedAnyway ==
  /\ window_closed' = TRUE
  /\ qpc' = "starting"
  /\ started' = TRUE
(* create_quiz, lines 685-691: the join loop is over.                      *)
JoinClosed ==
  /\ window_closed' = TRUE
  /\ IF participants = {}
       THEN /\ qpc' = "cancel"
            /\ UNCHANGED started
       ELSE /\ qpc' = "starting"
            /\ started' = TRUE

(* create_quiz, line 679: the join is acknowledged; an exception of the    *)
(* send is caught at line 682, which leaves the join loop.                 *)
JoinAck(raises) ==
  /\ qpc = "join_ack"
  /\ IF raises
       THEN JoinClosed /\ UNCHANGED join_deadline
       ELSE /\ qpc' = "join_wait"
            /\ join_deadline' = Rearmed(jnow)
            /\ UNCHANGED <<started, window_closed>>
  /\ UNCHANGED not_quiz
  /\ UNCHANGED <<current_question, jnow, n_joins>>
  /\ UNCHANGED <<active_quizzes, questions, scores, participants, qi,
                 answered_users, elapsed, selected_option, reveals, lb_after,
                 final_shown, quiz_raised>>

(* create_quiz, lines 680-681: wait_for timed out.                         *)
JoinTimeout ==
  /\ qpc = "join_wait"
  /\ jnow' = join_deadline
  /\ JoinClosed
  /\ UNCHANGED not_quiz
  /\ UNCHANGED <<current_question, join_deadline, n_joins>>
  /\ UNCHANGED <<active_quizzes, questions, scores, participants, qi,
                 answered_users, elapsed, selected_option, reveals, lb_after,
                 final_shown, quiz_raised>>

(* create_quiz, lines 686-688: nobody joined.                              *)
QuizCancel(raises) ==
  /\ qpc = "cancel"
  /\ IF raises
       THEN qpc' = "create_error" /\ UNCHANGED active_quizzes
       ELSE qpc' = "returned" /\ active_quizzes' = active_quizzes \ {QuizId}
  /\ quiz_raised' = (quiz_raised \/ raises)
  /\ WindowForgotten
  /\ UNCHANGED not_quiz
  /\ UNCHANGED <<questions, scores, participants, started, qi, answered_users,
                 elapsed, selected_option, reveals, lb_after, final_shown>>

(* create_quiz, lines 692-693, and run_quiz, lines 729-735.                *)
QuizStarting(raises) ==
  /\ qpc = "starting"
  /\ qpc' = IF raises THEN "create_error" ELSE "ask"
  /\ qi' = 0
  /\ quiz_raised' = (quiz_raised \/ raises)
  /\ WindowForgotten
  /\ UNCHANGED not_quiz
  /\ UNCHANGED <<active_quizzes, questions, scores, participants, started,
                 answered_users, elapsed, selected_option, reveals, lb_after, final_shown>>

(* run_quiz, lines 748-757: the question is sent, the window opens.        *)
Ask(raises) ==
  /\ qpc = "ask"
  /\ qpc' = IF raises THEN "run_error" ELSE "answer_wait"
  /\ answered_users' = {}
  /\ elapsed' = 0
  /\ quiz_raised' = (quiz_raised \/ raises)
  /\ UNCHANGED not_quiz
  /\ UNCHANGED join_vars
  /\ UNCHANGED <<active_quizzes, questions, scores, participants, started, qi,
                 selected_option, reveals, lb_after, final_shown>>

(* A faulty check, without the test of answered_users: C1 fails with it.   *)
AnswerCheckNoDedup(u) == u \in participants
(* A faulty check, without the test of the participants: a user who did   *)
(* not join is scored.                                                     *)
AnswerCheckAnyone(u) == u \notin answered_users
(* run_quiz, lines 765-770: the check of wait_for (the message and the     *)
(* emoji are those of the question).                                       *)
AnswerCheck(u) == u \in participants /\ u \notin answered_users

(* A faulty bonus, rounded up instead of truncated: C2 fails with it.      *)
TimeBonusCeil(time_taken) ==
  ((AnswerWindow - time_taken) * 10 + TicksPerSecond - 1) \div TicksPerSecond
(* run_quiz, line 779: int((10 - time_taken) * 10).                        *)
TimeBonus(time_taken) == ((AnswerWindow - time_taken) * 10) \div TicksPerSecond

(* run_quiz, line 778 *)
max_points == 100

(* run_quiz, lines 776-785: the points an evaluated answer adds to the     *)
(* score of its user.                                                      *)
AnswerPoints(selected, correct_label, time_taken) ==
  IF selected = correct_label THEN max_points + TimeBonus(time_taken) ELSE 0

(* run_quiz, lines 762-786: a reaction that passes the check at time t.    *)
AnswerAccepted(u, option, t) ==
  /\ qpc = "answer_wait"
  /\ t >= elapsed /\ t < AnswerWindow
  /\ AnswerCheck(u)
  /\ answered_users' = answered_users \cup {u}
  /\ elapsed' = t
  /\ selected_option' = option
  /\ IF option = questions[qi + 1]
       THEN /\ scores' = DictSet(scores, u, DictGet(scores, u, 0)
                                   + AnswerPoints(option, questions[qi + 1], t))
            /\ qpc' = "answer_ack"
       ELSE /\ UNCHANGED <<scores, qpc>>
  /\ UNCHANGED not_quiz
  /\ UNCHANGED join_vars
  /\ UNCHANGED <<active_quizzes, questions, participants, started, qi, reveals,
                 lb_after, final_shown, quiz_raised>>

(* run_quiz, lines 762-771: a reaction the check refuses; wait_for goes on *)
(* waiting.                                                                *)
AnswerIgnored(u, t) ==
  /\ qpc = "answer_wait"
  /\ t >= elapsed /\ t < AnswerWindow
  /\ ~AnswerCheck(u)
  /\ elapsed' = t
  /\ UNCHANGED not_quiz
  /\ UNCHANGED join_vars
  /\ UNCHANGED <<active_quizzes, questions, scores, participants, started, qpc, qi,
                 answered_users, selected_option, reveals, lb_after, final_shown,
                 quiz_raised>>

(* run_quiz, lines 788-789: the window closes.                             *)
AnswerTimeout ==
  /\ qpc = "answer_wait"
  /\ elapsed' = AnswerWindow
  /\ qpc' = "reveal"
  /\ UNCHANGED not_quiz
  /\ UNCHANGED join_vars
  /\ UNCHANGED <<active_quizzes, questions, scores, participants, started, qi,
                 answered_users, selected_option, reveals, lb_after, final_shown,
                 quiz_raised>>

(* run_quiz, line 786 and the loop test of line 760.                       *)
AnswerAck(raises) ==
  /\ qpc = "answer_ack"
  /\ qpc' = IF raises THEN "run_error"
            ELSE IF elapsed < AnswerWindow THEN "answer_wait" ELSE "reveal"
  /\ quiz_raised' = (quiz_raised \/ raises)
  /\ UNCHANGED not_quiz
  /\ UNCHANGED join_vars
  /\ UNCHANGED <<active_quizzes, questions, scores, participants, started, qi,
                 answered_users, elapsed, selected_option, reveals, lb_after, final_shown>>

(* A faulty test, on the 0-based index: C3 fails with it.                  *)
ShowsLeaderboardOdd(i, n) == i % 2 = 0 \/ i = n - 1
(* run_quiz, line 803: the standings follow question i (0-based) of n.     *)
ShowsLeaderboard(i, n) == (i + 1) % 2 = 0 \/ i = n - 1

(* run_quiz, lines 791-803: the correct answer is revealed.                *)
Reveal(raises) ==
  /\ qpc = "reveal"
  /\ IF raises
       THEN qpc' = "run_error" /\ UNCHANGED reveals
       ELSE /\ reveals' = Append(reveals, qi + 1)
            /\ qpc' = IF ShowsLeaderboard(qi, Len(questions))
                        THEN "leaderboard" ELSE "pause"
  /\ quiz_raised' = (quiz_raised \/ raises)
  /\ UNCHANGED not_quiz
  /\ UNCHANGED join_vars
  /\ UNCHANGED <<active_quizzes, questions, scores, participants, started, qi,
                 answered_users, elapsed, selected_option, lb_after, final_shown>>

(* sorted(..., reverse=True) that puts the lower score first.              *)
KeepsAheadAscending(a, b) == a <= b

(* display_leaderboard, line 708: sorted(..., key=score, reverse=True) is  *)
(* stable: a row stays ahead of a later row whose score is not higher.     *)
KeepsAhead(a, b) == a >= b

RECURSIVE RankedInsert(_, _)
(* The sorted rows with one more row, put behind the rows it does not      *)
(* outrank.                                                                *)
RankedInsert(row, rows) ==
  IF rows = <<>> THEN <<row>>
  ELSE IF KeepsAhead(Head(rows).score, row.score)
    THEN <<Head(rows)>> \o RankedInsert(row, Tail(rows))
    ELSE <<row>> \o rows

RECURSIVE Sorted(_)
(* display_leaderboard, line 708: the items of the dict sorted by score.   *)
Sorted(items) ==
  IF items = <<>> THEN <<>>
  ELSE RankedInsert(items[Len(items)], Sorted(SubSeq(items, 1, Len(items) - 1)))

(* scores.items() when the keys of the dict come in this order.            *)
Items(d, order) == [i \in 1..Len(order) |-> [player |-> order[i], score |-> d[order[i]]]]

(* The orders the keys of a dict may have been inserted in.                *)
KeyOrders(d) ==
  {order \in [1..Cardinality(DOMAIN d) -> DOMAIN d] :
     \A i, j \in DOMAIN order : i # j => order[i] # order[j]}

RECURSIVE Members(_, _)
(* display_leaderboard, lines 718-722: the rows of the players that        *)
(* ctx.guild.get_member finds.                                             *)
Members(rows, present) ==
  IF rows = <<>> THEN <<>>
  ELSE (IF Head(rows).player \in present THEN <<Head(rows)>> ELSE <<>>)
         \o Members(Tail(rows), present)

(* display_leaderboard, lines 702-725: the rows of the leaderboard sent.   *)
LeaderboardRows(d, order, present) == Members(Sorted(Items(d, order)), present)

(* run_quiz, line 804: display_leaderboard.                                *)
Leaderboard(raises, order, present) ==
  /\ qpc = "leaderboard"
  /\ IF raises
       THEN qpc' = "run_error" /\ UNCHANGED <<lb_after, lb_list>>
       ELSE /\ qpc' = "pause" /\ lb_after' = lb_after \cup {qi + 1}
            /\ lb_list' = LeaderboardRows(scores, order, present)
  /\ quiz_raised' = (quiz_raised \/ raises)
  /\ UNCHANGED not_quiz_lb
  /\ UNCHANGED join_vars
  /\ UNCHANGED <<active_quizzes, questions, scores, participants, started, qi,
                 answered_users, elapsed, selected_option, reveals, final_shown>>

(* run_quiz, line 807 and the next turn of the for loop of line 735.  The  *)
(* rows of the leaderboard were locals of display_leaderboard: lb_list     *)
(* keeps them while the message is the last one sent.                      *)
Pause ==
  /\ qpc = "pause"
  /\ qi' = qi + 1
  /\ qpc' = IF qi + 1 < Len(questions) THEN "ask" ELSE "final"
  /\ lb_list' = <<>>
  /\ UNCHANGED not_quiz_lb
  /\ UNCHANGED join_vars
  /\ UNCHANGED <<active_quizzes, questions, scores, participants, started,
                 answered_users, elapsed, selected_option, reveals, lb_after,
                 final_shown, quiz_raised>>

(* run_quiz, lines 810-811, then the finally of lines 815-818.             *)
Final(raises, order, present) ==
  /\ qpc = "final"
  /\ IF raises
       THEN qpc' = "run_error" /\ UNCHANGED <<final_shown, active_quizzes, lb_list>>
       ELSE /\ final_shown' = TRUE
            /\ lb_list' = LeaderboardRows(scores, order, present)
            /\ active_quizzes' = active_quizzes \ {QuizId}
            /\ qpc' = "returned"
  /\ quiz_raised' = (quiz_raised \/ raises)
  /\ UNCHANGED not_quiz_lb
  /\ UNCHANGED join_vars
  /\ UNCHANGED <<questions, scores, participants, started, qi, answered_users,
                 elapsed, selected_option, reveals, lb_after>>

(* run_quiz, lines 813-818: the handler reports the error and the finally  *)
(* removes the session; when the report raises too, the exception reaches  *)
(* the handler of create_quiz.                                             *)
RunError(raises) ==
  /\ qpc = "run_error"
  /\ active_quizzes' = active_quizzes \ {QuizId}
  /\ qpc' = IF raises THEN "create_error" ELSE "returned"
  /\ UNCHANGED not_quiz
  /\ UNCHANGED join_vars
  /\ UNCHANGED <<questions, scores, participants, started, qi, answered_users,
                 elapsed, selected_option, reveals, lb_after, final_shown, quiz_raised>>

(* create_quiz, lines 695-698: the error is reported; create_quiz ends.    *)
CreateError ==
  /\ qpc = "create_error"
  /\ qpc' = "returned"
  /\ UNCHANGED not_quiz
  /\ UNCHANGED join_vars
  /\ UNCHANGED <<active_quizzes, questions, scores, participants, started, qi,
                 answered_users, elapsed, selected_option, reveals, lb_after,
                 final_shown, quiz_raised>>

(* The question lists generate_quiz_questions returns: 1..MaxQuestions    *)
(* questions.                                                              *)
QuestionSets == {SubSeq(QuestionBank, 1, n) : n \in 1..MaxQuestions}

NextQuiz ==
  \/ \E qs \in QuestionSets : CreateQuiz(qs)
  \/ \E r \in BOOLEAN : QuizInvite(r)
  \/ \E u \in Users, d \in JoinDelays : JoinReaction(u, d)
  \/ \E r \in BOOLEAN : JoinAck(r)
  \/ JoinTimeout
  \/ \E r \in BOOLEAN : QuizCancel(r)
  \/ \E r \in BOOLEAN : QuizStarting(r)
  \/ \E r \in BOOLEAN : Ask(r)
  \/ \E u \in Users, o \in Labels, t \in AnswerTimes : AnswerAccepted(u, o, t)
  \/ \E u \in Users, t \in AnswerTimes : AnswerIgnored(u, t)
  \/ AnswerTimeout
  \/ \E r \in BOOLEAN : AnswerAck(r)
  \/ \E r \in BOOLEAN : Reveal(r)
  \/ /\ qpc = "leaderboard"
     /\ \E r \in BOOLEAN, order \in KeyOrders(scores), present \in SUBSET Users :
          Leaderboard(r, order, present)
  \/ Pause
  \/ /\ qpc = "final"
     /\ \E r \in BOOLEAN, order \in KeyOrders(scores), present \in SUBSET Users :
          Final(r, order, present)
  \/ \E r \in BOOLEAN : RunError(r)
  \/ CreateError

(* ======================================================================= *)
(*                       QUIZ SCORING, ON ITS OWN                          *)
(* ======================================================================= *)
(* Lines 776-785 of run_quiz applied to two answers of one window, the     *)
(* second not earlier than the first.                                      *)
(* Every eighth of a second of the window, the ticks around 9.9 s, and the *)
(* last tick of the window.                                                *)
ScoreTimes ==
  {k * (TicksPerSecond \div 8) : k \in 0..79}
    \cup {NearestTick(99, 10) - 1, NearestTick(99, 10), NearestTick(99, 10) + 1,
          AnswerWindow - 1}

InitScore ==
  /\ sc_time \in {p \in ScoreTimes \X ScoreTimes : p[1] <= p[2]}
  /\ sc_correct \in BOOLEAN \X BOOLEAN
  /\ sc_points = <<-1, -1>>
  /\ sc_n = 0

(* run_quiz, lines 776-785, for the next of the two answers.               *)
ScoreAnswer ==
  /\ sc_n < 2
  /\ sc_n' = sc_n + 1
  /\ sc_points' = [sc_points EXCEPT ![sc_n + 1] =
        AnswerPoints(IF sc_correct[sc_n + 1] THEN "A" ELSE "B", "A", sc_time[sc_n + 1])]
  /\ UNCHANGED <<sc_time, sc_correct>>
  /\ UNCHANGED not_score

(* No answer is being scored on its own.                                   *)
IdleScore ==
  /\ sc_time = <<0, 0>>
  /\ sc_correct = <<FALSE, FALSE>>
  /\ sc_points = <<-1, -1>>
  /\ sc_n = 0

NextScore == ScoreAnswer

(* ======================================================================= *)
(*                                 DEBATE                                  *)
(* ======================================================================= *)
DebateId == 1
Sides == {"for", "against"}

(* start_debate, lines 885-889 *)
Formats ==
  [standard |-> [opening |-> 180, main |-> 300, closing |-> 120],
   quick    |-> [opening |-> 120, main |-> 180, closing |-> 60],
   extended |-> [opening |-> 300, main |-> 480, closing |-> 180]]
FormatNames == DOMAIN Formats

(* start_debate, line 953: timeout=300.0 *)
DebateJoinTimeout == 300
(* run_debate, line 1017: asyncio.sleep(30) *)
BreakSeconds == 30

(* The emojis of a reaction added to the debate message: the two claims    *)
(* and any other.                                                          *)
ForEmoji == "yes"
AgainstEmoji == "no"
Emojis == {ForEmoji, AgainstEmoji, "other"}
NoEmoji == "-"
(* How long after the previous event a reaction may arrive, in seconds.    *)
ReactionDelays == {0, DebateJoinTimeout - 1}

InitDebate ==
  /\ active_debates = {}
  /\ debate_format = "standard"
  /\ debate_participants = [s \in Sides |-> NoUser]
  /\ current_phase = "null"
  /\ dpc = "idle"
  /\ dnow = 0
  /\ wait_deadline = 0
  /\ d_emoji = NoEmoji
  /\ d_user = NoUser
  /\ join_opened = 0
  /\ n_reactions = 0

(* start_debate, lines 896-911: the session is saved in the store.         *)
StartDebate(fmt) ==
  /\ dpc = "idle"
  /\ active_debates' = active_debates \cup {DebateId}
  /\ debate_format' = fmt
  /\ debate_participants' = [s \in Sides |-> NoUser]
  /\ current_phase' = "null"
  /\ dpc' = "announce"
  /\ UNCHANGED <<dnow, wait_deadline, d_emoji, d_user, join_opened, n_reactions>>
  /\ UNCHANGED not_debate

(* start_debate, line 952: the loop test, then either the wait_for of line *)
(* 953 with a fresh timeout or the call of run_debate of line 968.         *)
BothBound(p) == p["for"] # NoUser /\ p["against"] # NoUser
LoopTest(p, now) ==
  IF BothBound(p)
    THEN dpc' = "run_announce" /\ UNCHANGED wait_deadline
    ELSE dpc' = "wait" /\ wait_deadline' = now + DebateJoinTimeout

(* start_debate, lines 935-953: the announcement is sent and the wait for  *)
(* participants begins.  No handler is around these sends: an exception    *)
(* leaves start_debate.                                                    *)
DebateAnnounce(raises) ==
  /\ dpc = "announce"
  /\ IF raises
       THEN dpc' = "raised" /\ UNCHANGED <<wait_deadline, join_opened>>
       ELSE LoopTest(debate_participants, dnow) /\ join_opened' = dnow
  /\ UNCHANGED <<active_debates, debate_format, debate_participants, current_phase,
                 dnow, d_emoji, d_user, n_reactions>>
  /\ UNCHANGED not_debate

(* start_debate, lines 942-949: the check of wait_for.                     *)
DebateCheck(emoji, is_bot, in_voice) ==
  emoji \in {ForEmoji, AgainstEmoji} /\ ~is_bot /\ in_voice

(* A faulty binding that overwrites a taken side: C5 fails with it.        *)
BindAlways(p, emoji, u) ==
  IF emoji = ForEmoji THEN [p EXCEPT !["for"] = u]
  ELSE IF emoji = AgainstEmoji THEN [p EXCEPT !["against"] = u]
  ELSE p
(* start_debate, lines 955-959: what a reaction that wait_for returned     *)
(* does to the two slots.                                                  *)
Bind(p, emoji, u) ==
  IF emoji = ForEmoji /\ p["for"] = NoUser THEN [p EXCEPT !["for"] = u]
  ELSE IF emoji = AgainstEmoji /\ p["against"] = NoUser THEN [p EXCEPT !["against"] = u]
  ELSE p

(* start_debate, lines 953-960: wait_for returns a reaction that passed    *)
(* the check, d seconds after the previous event.                          *)
ClaimReaction(u, emoji, d) ==
  /\ dpc = "wait"
  /\ n_reactions < MaxReactions
  /\ dnow + d < wait_deadline
  /\ DebateCheck(emoji, FALSE, TRUE)
  /\ dnow' = dnow + d
  /\ n_reactions' = n_reactions + 1
  /\ d_emoji' = emoji
  /\ d_user' = u
  /\ debate_participants' = Bind(debate_participants, emoji, u)
  /\ IF debate_participants' # debate_participants
       THEN dpc' = "claim_ack" /\ UNCHANGED wait_deadline
       ELSE LoopTest(debate_participants', dnow')
  /\ UNCHANGED <<active_debates, debate_format, current_phase, join_opened>>
  /\ UNCHANGED not_debate

(* A reaction the check refuses (another emoji, a bot, a user outside the  *)
(* voice channel): wait_for goes on waiting for the same deadline.         *)
RefusedReaction(emoji, is_bot, in_voice, d) ==
  /\ dpc = "wait"
  /\ n_reactions < MaxReactions
  /\ dnow + d < wait_deadline
  /\ ~DebateCheck(emoji, is_bot, in_voice)
  /\ dnow' = dnow + d
  /\ n_reactions' = n_reactions + 1
  /\ UNCHANGED <<active_debates, debate_format, debate_participants, current_phase,
                 dpc, wait_deadline, d_emoji, d_user, join_opened>>
  /\ UNCHANGED not_debate

(* start_debate, lines 957 and 960: the claim is acknowledged, then the    *)
(* loop test.                                                              *)
ClaimAck(raises) ==
  /\ dpc = "claim_ack"
  /\ IF raises
       THEN dpc' = "raised" /\ UNCHANGED wait_deadline
       ELSE LoopTest(debate_participants, dnow)
  /\ UNCHANGED <<active_debates, debate_format, debate_participants, current_phase,
                 dnow, d_emoji, d_user, join_opened, n_reactions>>
  /\ UNCHANGED not_debate

(* start_debate, line 962: wait_for raises TimeoutError.                   *)
WaitTimeout ==
  /\ dpc = "wait"
  /\ dnow' = wait_deadline
  /\ dpc' = "cancel"
  /\ UNCHANGED <<active_debates, debate_format, debate_participants, current_phase,
                 wait_deadline, d_emoji, d_user, join_opened, n_reactions>>
  /\ UNCHANGED not_debate

(* start_debate, lines 963-965: the cancellation is announced, then the    *)
(* session is deleted.                                                     *)
DebateCancel(raises) ==
  /\ dpc = "cancel"
  /\ IF raises
       THEN dpc' = "raised" /\ UNCHANGED active_debates
       ELSE dpc' = "returned" /\ active_debates' = active_debates \ {DebateId}
  /\ UNCHANGED <<debate_format, debate_participants, current_phase, dnow,
                 wait_deadline, d_emoji, d_user, join_opened, n_reactions>>
  /\ UNCHANGED not_debate

(* run_debate, lines 972-994: the members are looked up, the start is      *)
(* announced and the first phase is entered.                               *)
RunAnnounce(raises) ==
  /\ dpc = "run_announce"
  /\ IF raises
       THEN dpc' = "run_error" /\ UNCHANGED current_phase
       ELSE dpc' = "phase" /\ current_phase' = "opening"
  /\ UNCHANGED <<active_debates, debate_format, debate_participants, dnow,
                 wait_deadline, d_emoji, d_user, join_opened, n_reactions>>
  /\ UNCHANGED not_debate

(* run_debate, lines 1002-1010: the four sleeps of a phase.                *)
PhaseSeconds(phase_time) == 2 * ((phase_time \div 2) + (phase_time \div 4))

(* run_debate, lines 995-1012: both sides speak.                           *)
PhaseRun(raises) ==
  /\ dpc = "phase"
  /\ IF raises
       THEN dpc' = "run_error" /\ UNCHANGED dnow
       ELSE /\ dnow' = dnow + PhaseSeconds(Formats[debate_format][current_phase])
            /\ dpc' = IF current_phase # "closing" THEN "break" ELSE "summary"
  /\ UNCHANGED <<active_debates, debate_format, debate_participants, current_phase,
                 wait_deadline, d_emoji, d_user, join_opened, n_reactions>>
  /\ UNCHANGED not_debate

(* A faulty successor that goes from the opening statements straight to   *)
(* the closing statements.                                                 *)
NextPhaseSkip(phase) == "closing"

(* run_debate, lines 987-991: the phase after a phase.                     *)
NextPhase(phase) == IF phase = "opening" THEN "main" ELSE "closing"

(* run_debate, lines 1015-1017, then line 994 of the next turn.            *)
PhaseBreak(raises) ==
  /\ dpc = "break"
  /\ IF raises
       THEN dpc' = "run_error" /\ UNCHANGED <<dnow, current_phase>>
       ELSE /\ dnow' = dnow + BreakSeconds
            /\ current_phase' = NextPhase(current_phase)
            /\ dpc' = "phase"
  /\ UNCHANGED <<active_debates, debate_format, debate_participants,
                 wait_deadline, d_emoji, d_user, join_opened, n_reactions>>
  /\ UNCHANGED not_debate

(* run_debate, lines 1019-1028, then the finally of lines 1032-1035.       *)
DebateSummary(raises) ==
  /\ dpc = "summary"
  /\ IF raises
       THEN dpc' = "run_error" /\ UNCHANGED active_debates
       ELSE dpc' = "returned" /\ active_debates' = active_debates \ {DebateId}
  /\ UNCHANGED <<debate_format, debate_participants, current_phase, dnow,
                 wait_deadline, d_emoji, d_user, join_opened, n_reactions>>
  /\ UNCHANGED not_debate

(* run_debate, lines 1030-1035: the error is reported and the finally      *)
(* removes the session; when the report raises too, the exception leaves   *)
(* start_debate.                                                           *)
DebateRunError(raises) ==
  /\ dpc = "run_error"
  /\ active_debates' = active_debates \ {DebateId}
  /\ dpc' = IF raises THEN "raised" ELSE "returned"
  /\ UNCHANGED <<debate_format, debate_participants, current_phase, dnow,
                 wait_deadline, d_emoji, d_user, join_opened, n_reactions>>
  /\ UNCHANGED not_debate

NextDebate ==
  \/ \E fmt \in FormatNames : StartDebate(fmt)
  \/ \E r \in BOOLEAN : DebateAnnounce(r)
  \/ \E u \in Users, e \in Emojis, d \in ReactionDelays : ClaimReaction(u, e, d)
  \/ \E e \in Emojis, b \in BOOLEAN, v \in BOOLEAN, d \in ReactionDelays :
       RefusedReaction(e, b, v, d)
  \/ \E r \in BOOLEAN : ClaimAck(r)
  \/ WaitTimeout
  \/ \E r \in BOOLEAN : DebateCancel(r)
  \/ \E r \in BOOLEAN : RunAnnounce(r)
  \/ \E r \in BOOLEAN : PhaseRun(r)
  \/ \E r \in BOOLEAN : PhaseBreak(r)
  \/ \E r \in BOOLEAN : DebateSummary(r)
  \/ \E r \in BOOLEAN : DebateRunError(r)

(* ======================================================================= *)
(*                               WHITEBOARD                                *)
(* ======================================================================= *)
Channels == {1, 2}

InitWhiteboard ==
  /\ active_whiteboards = {}
  /\ wb_data = <<>>
  /\ wb_end = <<>>
  /\ wb_msg = <<>>
  /\ wb_last_start = [n |-> 0, channel |-> 1, title_ok |-> FALSE, reply |-> "none"]
  /\ wb_ended = {}
  /\ wb_count = [ends |-> 0, messages |-> 0]

(* start_whiteboard, lines 1137-1138, end_whiteboard, lines 1192-1193, and *)
(* on_message, lines 1264-1265: the sessions of the store that are active  *)
(* in a channel.                                                           *)
ActiveIn(ch) ==
  {sid \in active_whiteboards :
     wb_data[sid].channel_id = ch /\ wb_data[sid].status = "active"}
(* The first of them in the order of the dict, which is the order of       *)
(* insertion; 0 when there is none.                                        *)
FirstActiveIn(ch) ==
  IF ActiveIn(ch) = {} THEN 0
  ELSE CHOOSE sid \in ActiveIn(ch) : \A other \in ActiveIn(ch) : sid <= other

(* The commands and image messages handled so far.                         *)
Events == wb_last_start.n + wb_count.ends + wb_count.messages

(* A faulty start that never looks for an active session: C4 fails with it.*)
StartRefusedNever(ch) == FALSE
(* start_whiteboard, lines 1136-1141: whether the command is refused.      *)
StartRefused(ch) == ActiveIn(ch) # {}

(* start_whiteboard, lines 1119-1156.  The session id is the id of the     *)
(* command message: here the number of the command.  The sends of lines    *)
(* 1182-1183 follow the insertion and change nothing.                      *)
StartWhiteboard(ch, title_ok) ==
  /\ Events < MaxEvents
  /\ LET sid == wb_last_start.n + 1
         reply == IF ~title_ok THEN "invalid"
                  ELSE IF StartRefused(ch) THEN "rejected" ELSE "created"
     IN  /\ wb_last_start' = [n |-> sid, channel |-> ch, title_ok |-> title_ok,
                              reply |-> reply]
         /\ wb_data' =
              IF reply = "created"
                THEN wb_data @@ (sid :> [channel_id |-> ch, images |-> <<>>,
                                         participants |-> {}, status |-> "active"])
                ELSE wb_data
         /\ active_whiteboards' =
              IF reply = "created" THEN active_whiteboards \cup {sid}
              ELSE active_whiteboards
  /\ UNCHANGED <<wb_end, wb_msg, wb_ended, wb_count>>
  /\ UNCHANGED not_wb

(* end_whiteboard, lines 1188-1203: the session of the channel is looked   *)
(* up; with one, the call is suspended in the first send.                  *)
EndBegin(ch) ==
  /\ Events < MaxEvents
  /\ FirstActiveIn(ch) # 0
  /\ wb_count' = [wb_count EXCEPT !.ends = @ + 1]
  /\ wb_end' = Append(wb_end,
       [pc |-> "generating", sid |-> FirstActiveIn(ch), idx |-> 0,
        saw_empty |-> FALSE, called_vision |-> FALSE])
  /\ UNCHANGED <<active_whiteboards, wb_data, wb_msg, wb_last_start, wb_ended>>
  /\ UNCHANGED not_wb

(* end_whiteboard, lines 1203-1211: after the first send.                  *)
EndGenerating(k, raises) ==
  /\ k \in 1..Len(wb_end)
  /\ wb_end[k].pc = "generating"
  /\ wb_end' = [wb_end EXCEPT ![k] =
       IF raises THEN [@ EXCEPT !.pc = "error"]
       ELSE IF wb_data[wb_end[k].sid].images = <<>>
         THEN [@ EXCEPT !.pc = "report_empty", !.saw_empty = TRUE]
         ELSE [@ EXCEPT !.pc = "image", !.idx = 1]]
  /\ UNCHANGED <<active_whiteboards, wb_data, wb_msg, wb_last_start, wb_ended, wb_count>>
  /\ UNCHANGED not_wb

(* A faulty end without the finally: C8 fails with it.                     *)
KeepSession(sid) == active_whiteboards
(* end_whiteboard, lines 1251-1253: the finally.                           *)
Discard(sid) == active_whiteboards \ {sid}

(* The call k of end_whiteboard has returned: what it did is recorded.     *)
Returned(k, emitted) ==
  /\ wb_end' = SubSeq(wb_end, 1, k - 1) \o SubSeq(wb_end, k + 1, Len(wb_end))
  /\ wb_ended' = wb_ended \cup
       {[sid |-> wb_end[k].sid, saw_empty |-> wb_end[k].saw_empty,
         called_vision |-> wb_end[k].called_vision, emitted |-> emitted]}

(* end_whiteboard, lines 1206-1207: nothing was captured; the return runs  *)
(* the finally.                                                            *)
EndReportEmpty(k, raises) ==
  /\ k \in 1..Len(wb_end)
  /\ wb_end[k].pc = "report_empty"
  /\ IF raises
       THEN /\ wb_end' = [wb_end EXCEPT ![k].pc = "error"]
            /\ UNCHANGED <<active_whiteboards, wb_ended>>
       ELSE /\ Returned(k, FALSE)
            /\ active_whiteboards' = Discard(wb_end[k].sid)
  /\ UNCHANGED <<wb_data, wb_msg, wb_last_start, wb_count>>
  /\ UNCHANGED not_wb

(* end_whiteboard, line 1211: the for loop over the live list of images.   *)
AfterImage(task) ==
  IF task.idx < Len(wb_data[task.sid].images)
    THEN [task EXCEPT !.idx = @ + 1]
    ELSE [task EXCEPT !.pc = "emit"]

(* What the body of the loop, lines 1212-1217, can do with one image: the  *)
(* progress message raises; the vision summarizer answers; it raises and   *)
(* the warning is sent; it raises and the warning raises too.              *)
ImageOutcomes == {"send_raises", "summarized", "warned", "warning_raises"}

(* end_whiteboard, lines 1211-1217: one image of the loop.  The body reads *)
(* and writes nothing of the store before the loop looks at the list       *)
(* again, so it is one step.                                               *)
EndImage(k, outcome) ==
  /\ k \in 1..Len(wb_end)
  /\ wb_end[k].pc = "image"
  /\ wb_end' = [wb_end EXCEPT ![k] =
       CASE outcome = "send_raises" -> [@ EXCEPT !.pc = "error"]
         [] outcome = "warning_raises" -> [@ EXCEPT !.pc = "error", !.called_vision = TRUE]
         [] OTHER -> AfterImage([@ EXCEPT !.called_vision = TRUE])]
  /\ UNCHANGED <<active_whiteboards, wb_data, wb_msg, wb_last_start, wb_ended, wb_count>>
  /\ UNCHANGED not_wb

(* end_whiteboard, lines 1219-1247, then the finally: the summary and the  *)
(* statistics are sent, the session is marked completed and removed.       *)
EndEmit(k, raises) ==
  /\ k \in 1..Len(wb_end)
  /\ wb_end[k].pc = "emit"
  /\ IF raises
       THEN /\ wb_end' = [wb_end EXCEPT ![k].pc = "error"]
            /\ UNCHANGED <<active_whiteboards, wb_data, wb_ended>>
       ELSE /\ Returned(k, TRUE)
            /\ wb_data' = [wb_data EXCEPT ![wb_end[k].sid].status = "completed"]
            /\ active_whiteboards' = Discard(wb_end[k].sid)
  /\ UNCHANGED <<wb_msg, wb_last_start, wb_count>>
  /\ UNCHANGED not_wb

(* end_whiteboard, lines 1249-1253: the error is reported (that send may   *)
(* raise too), then the finally.                                           *)
EndError(k) ==
  /\ k \in 1..Len(wb_end)
  /\ wb_end[k].pc = "error"
  /\ Returned(k, FALSE)
  /\ active_whiteboards' = Discard(wb_end[k].sid)
  /\ UNCHANGED <<wb_data, wb_msg, wb_last_start, wb_count>>
  /\ UNCHANGED not_wb

(* on_message, lines 1274-1278: whether an attachment is taken.            *)
Accepted(is_image, ext_ok) == is_image /\ ext_ok

(* on_message, line 1273: the attachments of one message, at most this    *)
(* many here.                                                              *)
MaxAttachments == 2

(* An attachment, as lines 1274-1278 see it: whether its content type      *)
(* says image and whether its file name ends in .jpg, .jpeg or .png.       *)
Attachments ==
  {[is_image |-> FALSE, ext_ok |-> TRUE],
   [is_image |-> TRUE, ext_ok |-> FALSE],
   [is_image |-> TRUE, ext_ok |-> TRUE]}

AttachmentLists ==
  UNION {[1..n -> Attachments] : n \in 1..MaxAttachments}

(* The messages with one attachment, a supported image.                    *)
OneImage ==
  {atts \in AttachmentLists :
     Len(atts) = 1 /\ Accepted(atts[1].is_image, atts[1].ext_ok)}

(* on_message, lines 1274-1275: attachments that are no images are passed  *)
(* over without an await.                                                  *)
RECURSIVE SkipOthers(_)
SkipOthers(atts) ==
  IF atts = <<>> \/ atts[1].is_image THEN atts ELSE SkipOthers(Tail(atts))

(* on_message, lines 1273-1284: the loop goes on to the next attachment    *)
(* that needs an await, the warning of line 1279 or the read of line 1284; *)
(* with none left the handler returns.  The bytes of an attachment are     *)
(* numbered by message and position.                                       *)
Awaited(sid, author, n, len, atts) ==
  LET rest == SkipOthers(atts)
  IN  IF rest = <<>> THEN <<>>
      ELSE <<[sid |-> sid, author |-> author, n |-> n, len |-> len,
              bytes |-> MaxAttachments * (n - 1) + (len - Len(rest)) + 1,
              pc |-> IF Accepted(rest[1].is_image, rest[1].ext_ok)
                       THEN "read" ELSE "warning",
              todo |-> Tail(rest)]>>

(* The same call with its suspended task replaced by what follows it.      *)
Resumed(k, after) ==
  SubSeq(wb_msg, 1, k - 1) \o after \o SubSeq(wb_msg, k + 1, Len(wb_msg))

(* on_message, lines 1259-1284: a message with attachments.  A message of  *)
(* a bot or in a channel without an active session is returned from at     *)
(* lines 1260 and 1270.                                                    *)
MessageBegin(ch, author, is_bot, atts) ==
  /\ Events < MaxEvents
  /\ wb_count.messages < MaxMessages
  /\ ~is_bot
  /\ FirstActiveIn(ch) # 0
  /\ wb_count' = [wb_count EXCEPT !.messages = @ + 1]
  /\ wb_msg' = wb_msg \o Awaited(FirstActiveIn(ch), author, wb_count.messages + 1,
                                 Len(atts), atts)
  /\ UNCHANGED <<active_whiteboards, wb_data, wb_end, wb_last_start, wb_ended>>
  /\ UNCHANGED not_wb

(* on_message, lines 1284-1288 and 1317: attachment.read() returns and the *)
(* bytes are appended to the session found at line 1266, or it raises and  *)
(* the error is to be reported.  After the last attachment the sends that  *)
(* follow change nothing and the call is over.                             *)
MessageRead(k, raises) ==
  /\ k \in 1..Len(wb_msg)
  /\ wb_msg[k].pc = "read"
  /\ wb_msg' = IF wb_msg[k].todo = <<>> THEN Resumed(k, <<>>)
               ELSE [wb_msg EXCEPT ![k].pc = IF raises THEN "report" ELSE "feedback"]
  /\ wb_data' =
       IF raises THEN wb_data
       ELSE [wb_data EXCEPT ![wb_msg[k].sid].images = Append(@, wb_msg[k].bytes),
                            ![wb_msg[k].sid].participants = @ \cup {wb_msg[k].author}]
  /\ UNCHANGED <<active_whiteboards, wb_end, wb_last_start, wb_ended, wb_count>>
  /\ UNCHANGED not_wb

(* on_message, the sends that change nothing in the session: the warning   *)
(* of line 1279, the feedback of lines 1291-1315 and the report of line    *)
(* 1318.  Lines 1279 and 1318 have no handler around them, and an          *)
(* exception of line 1314 ends in line 1318: when the exception leaves     *)
(* on_message the attachments still to do are dropped.                     *)
MessageSent(k, raises) ==
  /\ k \in 1..Len(wb_msg)
  /\ wb_msg[k].pc \in {"warning", "feedback", "report"}
  /\ wb_msg' = Resumed(k, IF raises THEN <<>>
                          ELSE Awaited(wb_msg[k].sid, wb_msg[k].author, wb_msg[k].n,
                                       wb_msg[k].len, wb_msg[k].todo))
  /\ UNCHANGED <<active_whiteboards, wb_data, wb_end, wb_last_start, wb_ended,
                 wb_count>>
  /\ UNCHANGED not_wb

NextWhiteboard ==
  \/ \E ch \in Channels, ok \in BOOLEAN : StartWhiteboard(ch, ok)
  \/ \E ch \in Channels : EndBegin(ch)
  \/ \E k \in 1..MaxEvents, r \in BOOLEAN : EndGenerating(k, r)
  \/ \E k \in 1..MaxEvents, r \in BOOLEAN : EndReportEmpty(k, r)
  \/ \E k \in 1..MaxEvents, o \in ImageOutcomes : EndImage(k, o)
  \/ \E k \in 1..MaxEvents, r \in BOOLEAN : EndEmit(k, r)
  \/ \E k \in 1..MaxEvents : EndError(k)
  \/ \E ch \in Channels, u \in Users, b \in BOOLEAN, atts \in OneImage :
       MessageBegin(ch, u, b, atts)
  \/ \E k \in 1..MaxEvents, r \in BOOLEAN : MessageRead(k, r)

(* Sessions and the messages posted in their channels, with every list of  *)
(* attachments.                                                            *)
NextMessages ==
  \/ \E ch \in Channels, ok \in BOOLEAN : StartWhiteboard(ch, ok)
  \/ \E ch \in Channels, u \in Users, b \in BOOLEAN, atts \in AttachmentLists :
       MessageBegin(ch, u, b, atts)
  \/ \E k \in 1..MaxEvents, r \in BOOLEAN : MessageRead(k, r)
  \/ \E k \in 1..MaxEvents, r \in BOOLEAN : MessageSent(k, r)

(* ======================================================================= *)
(*                               FLASHCARDS                                *)
(* ======================================================================= *)
SetId == 1
NoMessage == 0
Controls == {"reveal", "next", "correct", "incorrect", "end", "other"}

(* The deck of n cards: the difficulties 1, 2, 3 in turn.                  *)
Deck(n) == [i \in 1..n |-> ((i - 1) % 3) + 1]

(* generate_flashcards, line 1376, and end_flashcard_session, line 1645:   *)
(* the difficulty levels.                                                  *)
Difficulties == {1, 2, 3}

(* The difficulty a reply gives a card: a JSON value of some type; value   *)
(* is the number Python compares (True is 1), and 0 for a string.          *)
RawDifficulties ==
  { [type |-> "int", value |-> 2], [type |-> "int", value |-> 3],
    [type |-> "int", value |-> 4],
    [type |-> "bool", value |-> 1], [type |-> "str", value |-> 0] }

(* The cards of a reply: whether the four required fields are there, and   *)
(* the difficulty.  One kind of card lacks a field.                        *)
RawCards ==
  {[complete |-> TRUE, difficulty |-> d] : d \in RawDifficulties}
    \cup {[complete |-> FALSE, difficulty |-> [type |-> "int", value |-> 2]]}

RECURSIVE CardLists(_)
(* The lists of 1..n cards of a reply.                                     *)
CardLists(n) ==
  IF n = 0 THEN {<<>>}
  ELSE LET shorter == CardLists(n - 1)
       IN shorter \cup {Append(l, c) : l \in {x \in shorter : Len(x) = n - 1},
                                       c \in RawCards}

(* generate_flashcards, line 1376, with the difficulty left as it came.    *)
DifficultyKept(raw) == raw.value

(* generate_flashcards, lines 1376-1377: a difficulty that is not an int   *)
(* (a bool is one) between 1 and 3 becomes 1.                              *)
Difficulty(raw) ==
  IF raw.type \in {"int", "bool"} /\ 1 <= raw.value /\ raw.value <= 3
    THEN raw.value ELSE 1

(* generate_flashcards, lines 1372-1384: the cards of the reply with their *)
(* difficulties put right, or [] when a card lacks a field.                *)
GeneratedCards(reply) ==
  IF \A i \in 1..Len(reply) : reply[i].complete
    THEN [i \in 1..Len(reply) |-> Difficulty(reply[i].difficulty)]
    ELSE <<>>

(* end_flashcard_session, lines 1645-1649: the reviewed cards of each      *)
(* difficulty.                                                             *)
DifficultyReviewed(cs, reviewed) ==
  [d \in Difficulties |-> Cardinality({idx \in reviewed : cs[idx + 1] = d})]

InitFlashcards ==
  /\ active_flashcard_sets = {}
  /\ cards = <<>>
  /\ current_card = 0
  /\ current_message = NoMessage
  /\ stats = [correct |-> 0, incorrect |-> 0, cards_reviewed |-> {}]
  /\ fpc = "idle"
  /\ fc_tasks = <<>>
  /\ fc_next_msg = 1
  /\ fc_controls = 0
  /\ idx_log = <<>>
  /\ fc_summary = [built |-> FALSE, correct |-> 0, incorrect |-> 0, accuracy |-> 0,
                   total_reviewed |-> 0,
                   difficulty_reviewed |-> [d \in Difficulties |-> 0]]
  /\ fc_end_returned = FALSE
  /\ last_judged = 0

(* create_flashcards, lines 1461-1478: the set is stored.                  *)
StoreCards(flashcards) ==
  /\ fpc = "idle"
  /\ active_flashcard_sets' = active_flashcard_sets \cup {SetId}
  /\ cards' = flashcards
  /\ current_card' = 0
  /\ current_message' = NoMessage
  /\ stats' = [correct |-> 0, incorrect |-> 0, cards_reviewed |-> {}]
  /\ idx_log' = <<0>>
  /\ fpc' = "announce"
  /\ UNCHANGED <<fc_tasks, fc_next_msg, fc_controls, fc_end_returned, fc_summary>>
  /\ UNCHANGED not_fc

(* create_flashcards, lines 1461-1478, with a deck of n cards.             *)
CreateFlashcards(n) == StoreCards(Deck(n))

(* create_flashcards, lines 1452-1478: the cards generate_flashcards made  *)
(* of the reply are stored.                                                *)
CreateGenerated(reply) ==
  /\ GeneratedCards(reply) # <<>>
  /\ StoreCards(GeneratedCards(reply))

(* create_flashcards, lines 1452-1458: without cards the failure is        *)
(* reported and no set is stored.                                          *)
CreateRefused(reply) ==
  /\ fpc = "idle"
  /\ GeneratedCards(reply) = <<>>
  /\ fpc' = "returned"
  /\ UNCHANGED <<active_flashcard_sets, cards, current_card, current_message, stats,
                 fc_tasks, fc_next_msg, fc_controls, idx_log, fc_end_returned, fc_summary>>
  /\ UNCHANGED not_fc

(* create_flashcards, lines 1505-1511, and show_flashcard, lines 1515-1518 *)
CreateAnnounce(raises) ==
  /\ fpc = "announce"
  /\ fpc' = IF raises \/ SetId \notin active_flashcard_sets
              THEN "returned" ELSE "first_show"
  /\ UNCHANGED <<active_flashcard_sets, cards, current_card, current_message, stats,
                 fc_tasks, fc_next_msg, fc_controls, idx_log, fc_end_returned, fc_summary>>
  /\ UNCHANGED not_fc

(* show_flashcard, lines 1559-1562, called at line 1508: the first card is *)
(* sent and its message id is stored.                                      *)
CreateShow(raises) ==
  /\ fpc = "first_show"
  /\ fpc' = "returned"
  /\ IF raises
       THEN UNCHANGED <<current_message, fc_next_msg>>
       ELSE /\ current_message' = fc_next_msg
            /\ fc_next_msg' = fc_next_msg + 1
  /\ UNCHANGED <<active_flashcard_sets, cards, current_card, stats,
                 fc_tasks, fc_controls, idx_log, fc_end_returned, fc_summary>>
  /\ UNCHANGED not_fc

(* A faulty advance that skips a card: C10 fails with it.                  *)
AdvanceSkip(idx, n) == (idx + 2) % n
(* A faulty advance that does not wrap around at the end of the deck.      *)
AdvanceUnwrapped(idx, n) == idx + 1
(* on_reaction_add, lines 1598, 1606 and 1614.                             *)
Advance(idx, n) == (idx + 1) % n

(* on_reaction_add, lines 1602-1603 and 1610-1611.                         *)
Mark(st, emoji, idx) ==
  [correct |-> st.correct + (IF emoji = "correct" THEN 1 ELSE 0),
   incorrect |-> st.incorrect + (IF emoji = "incorrect" THEN 1 ELSE 0),
   cards_reviewed |-> st.cards_reviewed \cup {idx}]

(* A faulty accuracy that is truncated, not rounded: C11 fails with it.     *)
AccuracyTruncated(st) ==
  IF st.correct + st.incorrect > 0
    THEN (1000 * st.correct) \div (st.correct + st.incorrect)
    ELSE 0
(* end_flashcard_session, lines 1627 and 1641: the accuracy the summary    *)
(* shows, in tenths of a percent: (correct / (correct + incorrect)) * 100  *)
(* under the format .1f, and 0 without a judgment.  With fewer than 16     *)
(* judgments no quotient lies halfway between two tenths.                  *)
Accuracy(st) ==
  IF st.correct + st.incorrect > 0
    THEN (2000 * st.correct + st.correct + st.incorrect)
           \div (2 * (st.correct + st.incorrect))
    ELSE 0

(* on_reaction_add, lines 1601 and 1609: the local current_card_idx is    *)
(* bound in the two mark branches only.                                    *)
NoIndex == 0 - 1

(* The suspended call k has returned.                                      *)
Finished(k) == SubSeq(fc_tasks, 1, k - 1) \o SubSeq(fc_tasks, k + 1, Len(fc_tasks))

(* A faulty handler in which every control moves on to the next card.     *)
IndexAfterAlways(emoji, idx, n) == Advance(idx, n)

(* on_reaction_add, lines 1594-1599: the index once the synchronous part   *)
(* of the handler of a control has run; only the next-card control has     *)
(* moved it.                                                               *)
IndexAfter(emoji, idx, n) == IF emoji = "next" THEN Advance(idx, n) ELSE idx

(* A faulty lookup that takes the set whatever message was reacted to.    *)
FoundAny(msg) == SetId \in active_flashcard_sets

(* on_reaction_add, lines 1578-1588: the set whose current_message is the  *)
(* message reacted to was found.                                           *)
Found(msg) == SetId \in active_flashcard_sets /\ current_message = msg

(* on_reaction_add, lines 1575-1617, up to the first await: a reaction     *)
(* with this emoji is added to message msg.  show_flashcard, lines         *)
(* 1515-1520, reads the card to show before its first await; show_answer   *)
(* is its parameter and shown the index of the card of its embed.          *)
ReactionAdd(emoji, msg, is_bot) ==
  /\ fc_controls < MaxControls
  /\ Len(fc_tasks) < MaxTasks
  /\ msg \in 1..(fc_next_msg - 1)
  /\ IF is_bot \/ ~Found(msg) \/ emoji = "other"
       THEN UNCHANGED <<current_card, stats, fc_tasks, fc_controls, idx_log, fc_summary>>
       ELSE /\ fc_controls' = fc_controls + 1
            /\ fc_summary' =
                 IF emoji = "end"
                   THEN [built |-> TRUE, correct |-> stats.correct,
                         incorrect |-> stats.incorrect, accuracy |-> Accuracy(stats),
                         total_reviewed |-> Cardinality(stats.cards_reviewed),
                         difficulty_reviewed |->
                           DifficultyReviewed(cards, stats.cards_reviewed)]
                   ELSE fc_summary
            /\ current_card' = IndexAfter(emoji, current_card, Len(cards))
            /\ idx_log' =
                 IF emoji = "next" THEN Append(idx_log, Advance(current_card, Len(cards)))
                 ELSE idx_log
            /\ stats' =
                 IF emoji \in {"correct", "incorrect"}
                   THEN Mark(stats, emoji, current_card) ELSE stats
            /\ fc_tasks' = Append(fc_tasks,
                 [pc |-> CASE emoji \in {"reveal", "next"} -> "show"
                           [] emoji \in {"correct", "incorrect"} -> "marked"
                           [] OTHER -> "end_send",
                  current_card_idx |->
                    IF emoji \in {"correct", "incorrect"} THEN current_card
                    ELSE NoIndex,
                  show_answer |-> (emoji = "reveal"),
                  shown |->
                    IF emoji \in {"reveal", "next"}
                      THEN IndexAfter(emoji, current_card, Len(cards))
                      ELSE NoIndex])
  /\ UNCHANGED <<active_flashcard_sets, cards, current_message, fpc, fc_next_msg,
                 fc_end_returned>>
  /\ last_judged' =
       IF ~(is_bot \/ ~Found(msg)) /\ emoji \in {"next", "correct", "incorrect"}
         THEN msg ELSE last_judged
  /\ UNCHANGED not_fc_judged

(* on_reaction_add, lines 1604-1607 and 1612-1615: after the confirmation  *)
(* is sent the index advances and show_flashcard, lines 1515-1518, looks   *)
(* the set up again.                                                       *)
TaskMarked(k, raises) ==
  /\ k \in 1..Len(fc_tasks)
  /\ fc_tasks[k].pc = "marked"
  /\ IF raises
       THEN /\ fc_tasks' = Finished(k)
            /\ UNCHANGED <<current_card, idx_log>>
       ELSE /\ current_card' = Advance(current_card, Len(cards))
            /\ idx_log' = Append(idx_log, Advance(current_card, Len(cards)))
            /\ fc_tasks' = IF SetId \in active_flashcard_sets
                             THEN [fc_tasks EXCEPT
                                     ![k] = [pc |-> "show", current_card_idx |-> NoIndex,
                                             show_answer |-> FALSE,
                                             shown |-> Advance(current_card, Len(cards))]]
                             ELSE Finished(k)
  /\ UNCHANGED <<active_flashcard_sets, cards, current_message, stats, fpc,
                 fc_next_msg, fc_controls, fc_end_returned, fc_summary>>
  /\ UNCHANGED not_fc

(* show_flashcard, lines 1559-1570: the card is sent and its message id    *)
(* becomes the current message.                                            *)
TaskShow(k, raises) ==
  /\ k \in 1..Len(fc_tasks)
  /\ fc_tasks[k].pc = "show"
  /\ fc_tasks' = Finished(k)
  /\ IF raises
       THEN UNCHANGED <<current_message, fc_next_msg>>
       ELSE /\ current_message' = fc_next_msg
            /\ fc_next_msg' = fc_next_msg + 1
  /\ UNCHANGED <<active_flashcard_sets, cards, current_card, stats, fpc,
                 fc_controls, idx_log, fc_end_returned, fc_summary>>
  /\ UNCHANGED not_fc

(* end_flashcard_session, lines 1659-1665: after the summary is sent the   *)
(* set is deleted; an exception, of the send or of the delete of a set     *)
(* already gone, is reported and nothing else is done.                     *)
TaskEndSend(k, raises) ==
  /\ k \in 1..Len(fc_tasks)
  /\ fc_tasks[k].pc = "end_send"
  /\ fc_tasks' = Finished(k)
  /\ fc_end_returned' = TRUE
  /\ active_flashcard_sets' =
       IF raises THEN active_flashcard_sets ELSE active_flashcard_sets \ {SetId}
  /\ UNCHANGED <<cards, current_card, current_message, stats, fpc,
                 fc_next_msg, fc_controls, idx_log, fc_summary>>
  /\ UNCHANGED not_fc

NextFlashcards ==
  \/ \E n \in 1..MaxCards : CreateFlashcards(n)
  \/ \E r \in BOOLEAN : CreateAnnounce(r)
  \/ \E r \in BOOLEAN : CreateShow(r)
  \/ \E e \in Controls, m \in 1..(MaxControls + 1), b \in BOOLEAN : ReactionAdd(e, m, b)
  \/ \E k \in 1..MaxTasks, r \in BOOLEAN : TaskMarked(k, r)
  \/ \E k \in 1..MaxTasks, r \in BOOLEAN : TaskShow(k, r)
  \/ \E k \in 1..MaxTasks, r \in BOOLEAN : TaskEndSend(k, r)

(* The sets made of every reply, reviewed without failures of Discord.     *)
NextCards ==
  \/ fpc = "idle" /\ \E reply \in CardLists(MaxCards) : CreateGenerated(reply)
  \/ fpc = "idle" /\ \E reply \in CardLists(MaxCards) : CreateRefused(reply)
  \/ CreateAnnounce(FALSE)
  \/ CreateShow(FALSE)
  \/ \E e \in {"next", "correct", "end"}, m \in 1..(MaxControls + 1) :
       ReactionAdd(e, m, FALSE)
  \/ \E k \in 1..MaxTasks : TaskMarked(k, FALSE)
  \/ \E k \in 1..MaxTasks : TaskShow(k, FALSE)
  \/ \E k \in 1..MaxTasks : TaskEndSend(k, FALSE)

(* ======================================================================= *)
(*                             PODCAST AUDIO                               *)
(* ======================================================================= *)
(* _generate_audio_with_retry, line 408: max_retries: int = 3              *)
max_retries == 3
(* _generate_audio_with_retry, line 410: retry_delay = 5                   *)
InitialRetryDelay == 5
(* __init__, line 34: self.min_request_interval = 2                        *)
min_request_interval == 2
(* What one call of generate_audio does: it returns audio, it returns an   *)
(* empty response body (audio_generator.py, line 38), or it raises: for a  *)
(* missing or refused API key (audio_generator.py, lines 14-15 and 35-36)  *)
(* or for another reason (lines 39-47).                                    *)
AttemptOutcomes == {"audio", "empty", "raises", "bad_key"}
Raising == {"raises", "bad_key"}

(* The reading of the clock of the event loop when the segments begin: its *)
(* origin is not specified.                                                *)
StartTimes == {0, 100}
(* The seconds a request to the provider takes.                            *)
Durations == {1, 3}
NoTime == 0 - 1

(* create_podcast, lines 289-291, 315-317, 335-337, 357-359 and 387: the   *)
(* temporary files.                                                        *)
File(kind, i) == [kind |-> kind, i |-> i]
OutputFile == File("output", 0)
Range(f) == {f[j] : j \in 1..Len(f)}

InitAudio ==
  /\ apc = "idle"
  /\ script_len = 0
  /\ seg = 0
  /\ audio_segments = <<>>
  /\ warned = {}
  /\ attempt = 0
  /\ retry_delay = InitialRetryDelay
  /\ call_outcomes = <<>>
  /\ call_waits = <<>>
  /\ call_result = "none yet"
  /\ pnow = 0
  /\ last_request_time = 0
  /\ prev_start = NoTime
  /\ last_start = NoTime
  /\ temp_files = {}
  /\ podcast_sent = FALSE

(* create_podcast, lines 203-280: a script of n segments was generated and *)
(* audio_segments is empty, when the clock of the loop reads now.  The     *)
(* exits before line 277 leave no file.                                    *)
CreatePodcast(n, now) ==
  /\ apc = "idle"
  /\ apc' = "intro"
  /\ pnow' = now
  /\ script_len' = n
  /\ seg' = 0
  /\ audio_segments' = <<>>
  /\ warned' = {}
  /\ UNCHANGED <<attempt, retry_delay, call_outcomes, call_waits, call_result,
                 last_request_time, prev_start, last_start, temp_files,
                 podcast_sent>>
  /\ UNCHANGED not_audio

(* create_podcast, lines 283-293, 345-361: a sound effect is requested;    *)
(* when it comes its file is written and appended, when not a warning is   *)
(* printed.                                                                *)
IntroEffect(ok) ==
  /\ apc = "intro"
  /\ apc' = "announce"
  /\ IF ok
       THEN /\ temp_files' = temp_files \cup {File("intro", 0)}
            /\ audio_segments' = Append(audio_segments, File("intro", 0))
       ELSE UNCHANGED <<temp_files, audio_segments>>
  /\ UNCHANGED <<script_len, seg, warned, attempt, retry_delay, call_outcomes,
                 call_waits, call_result, pnow, last_request_time, prev_start,
                 last_start, podcast_sent>>
  /\ UNCHANGED not_audio

(* create_podcast, line 295: the next turn of the loop, or its end.        *)
NextSegment ==
  IF seg + 1 < script_len
    THEN seg' = seg + 1 /\ apc' = "announce"
    ELSE seg' = seg /\ apc' = "collected"

(* After the loop of line 295 the clock is not read and no speech is asked *)
(* for any more: the record of the last call and the clock are dropped.    *)
LoopForgotten ==
  /\ attempt' = 0
  /\ retry_delay' = InitialRetryDelay
  /\ call_outcomes' = <<>>
  /\ call_waits' = <<>>
  /\ call_result' = "none yet"
  /\ pnow' = 0
  /\ prev_start' = NoTime
  /\ last_start' = NoTime

(* create_podcast, lines 297-300: the sleep of the rate limiting.          *)
RateLimitWait(now, last) ==
  IF now - last < min_request_interval
    THEN min_request_interval - (now - last)
    ELSE 0

(* A speech request begins at time t.                                      *)
Started(t) == prev_start' = last_start /\ last_start' = t

(* create_podcast, lines 296-311, and _generate_audio_with_retry, lines    *)
(* 410-412: the rate limiting, then the segment is announced and the call  *)
(* begins.  Nothing assigns self.last_request_time.                        *)
SegmentAnnounce(raises) ==
  /\ apc = "announce"
  /\ pnow' = pnow + RateLimitWait(pnow, last_request_time)
  /\ IF raises
       THEN /\ apc' = "warn"
            /\ UNCHANGED <<attempt, retry_delay, call_outcomes, call_waits, call_result,
                           prev_start, last_start>>
       ELSE /\ apc' = "calling"
            /\ attempt' = 0
            /\ retry_delay' = InitialRetryDelay
            /\ call_outcomes' = <<>>
            /\ call_waits' = <<>>
            /\ call_result' = "pending"
            /\ Started(pnow')
  /\ UNCHANGED <<script_len, seg, audio_segments, warned, last_request_time,
                 temp_files, podcast_sent>>
  /\ UNCHANGED not_audio

(* _generate_audio_with_retry, lines 412-427, and create_podcast, lines    *)
(* 313-320 and 341-343: one attempt, which takes d seconds.  Audio is      *)
(* returned to the caller, which writes and appends the file of the        *)
(* segment and asks for a transition unless the segment is the last; an    *)
(* empty result goes on with the loop at once, and falls out of it to      *)
(* return None after the last attempt, which the caller skips; an          *)
(* exception, whatever its reason, leads to the sleep, or is raised again  *)
(* at the last attempt.                                                    *)
Attempt(outcome, d) ==
  /\ apc = "calling"
  /\ pnow' = pnow + d
  /\ call_outcomes' = Append(call_outcomes, outcome)
  /\ CASE outcome = "audio" ->
            /\ call_result' = "audio"
            /\ audio_segments' = Append(audio_segments, File("speech", seg))
            /\ temp_files' = temp_files \cup {File("speech", seg)}
            /\ IF seg < script_len - 1
                 THEN apc' = "transition" /\ UNCHANGED seg
                 ELSE NextSegment
            /\ UNCHANGED <<attempt, prev_start, last_start>>
       [] outcome = "empty" ->
            /\ attempt' = attempt + 1
            /\ UNCHANGED <<audio_segments, temp_files>>
            /\ IF attempt + 1 < max_retries
                 THEN Started(pnow') /\ UNCHANGED <<apc, seg, call_result>>
                 ELSE /\ call_result' = "none"
                      /\ NextSegment
                      /\ UNCHANGED <<prev_start, last_start>>
       [] outcome \in Raising ->
            /\ UNCHANGED <<attempt, audio_segments, temp_files, seg,
                           prev_start, last_start>>
            /\ IF attempt < max_retries - 1
                 THEN apc' = "sleeping" /\ UNCHANGED call_result
                 ELSE apc' = "warn" /\ call_result' = "raised"
  /\ UNCHANGED <<script_len, warned, retry_delay, call_waits, last_request_time,
                 podcast_sent>>
  /\ UNCHANGED not_audio

(* _generate_audio_with_retry, line 423: retry_delay *= 2                  *)
NextDelay(delay) == delay * 2

(* _generate_audio_with_retry, lines 422-423 and 412: the sleep is over    *)
(* and the next attempt begins.                                            *)
Backoff ==
  /\ apc = "sleeping"
  /\ call_waits' = Append(call_waits, retry_delay)
  /\ retry_delay' = NextDelay(retry_delay)
  /\ attempt' = attempt + 1
  /\ pnow' = pnow + retry_delay
  /\ Started(pnow')
  /\ apc' = "calling"
  /\ UNCHANGED <<script_len, seg, audio_segments, warned, call_outcomes, call_result,
                 last_request_time, temp_files, podcast_sent>>
  /\ UNCHANGED not_audio

(* create_podcast, lines 320-339: the transition after a segment that is   *)
(* not the last.                                                           *)
Transition(ok, d) ==
  /\ apc = "transition"
  /\ pnow' = pnow + d
  /\ IF ok
       THEN /\ temp_files' = temp_files \cup {File("transition", seg)}
            /\ audio_segments' = Append(audio_segments, File("transition", seg))
       ELSE UNCHANGED <<temp_files, audio_segments>>
  /\ NextSegment
  /\ UNCHANGED <<script_len, warned, attempt, retry_delay, call_outcomes,
                 call_waits, call_result, last_request_time, prev_start, last_start,
                 podcast_sent>>
  /\ UNCHANGED not_audio

(* create_podcast, lines 341-343: the failure of the segment is reported;  *)
(* an exception of that send leaves the loop for the handler of line 405.  *)
SegmentWarn(raises) ==
  /\ apc = "warn"
  /\ warned' = warned \cup {seg}
  /\ UNCHANGED audio_segments
  /\ IF raises THEN apc' = "error" /\ UNCHANGED seg ELSE NextSegment
  /\ UNCHANGED <<script_len, attempt, retry_delay, call_outcomes, call_waits,
                 call_result, pnow, last_request_time, prev_start, last_start,
                 temp_files, podcast_sent>>
  /\ UNCHANGED not_audio

(* create_podcast, lines 345-347: with audio_segments empty the failure is *)
(* reported and the command returns.                                       *)
AbortEmpty(raises) ==
  /\ apc = "collected"
  /\ audio_segments = <<>>
  /\ apc' = IF raises THEN "error" ELSE "returned"
  /\ LoopForgotten
  /\ UNCHANGED <<script_len, seg, audio_segments, warned, last_request_time,
                 temp_files, podcast_sent>>
  /\ UNCHANGED not_audio

(* create_podcast, lines 345 and 349-361: with a file in audio_segments    *)
(* the outro effect is asked for.                                          *)
OutroEffect(ok) ==
  /\ apc = "collected"
  /\ audio_segments # <<>>
  /\ apc' = "mix_announce"
  /\ LoopForgotten
  /\ IF ok
       THEN /\ temp_files' = temp_files \cup {File("outro", 0)}
            /\ audio_segments' = Append(audio_segments, File("outro", 0))
       ELSE UNCHANGED <<temp_files, audio_segments>>
  /\ UNCHANGED <<script_len, seg, warned, last_request_time, podcast_sent>>
  /\ UNCHANGED not_audio

(* create_podcast, line 363: the mixing is announced, outside the try of   *)
(* line 364.                                                               *)
MixAnnounce(raises) ==
  /\ apc = "mix_announce"
  /\ apc' = IF raises THEN "error" ELSE "mixing"
  /\ UNCHANGED <<script_len, seg, audio_segments, warned, attempt, retry_delay,
                 call_outcomes, call_waits, call_result, pnow, last_request_time,
                 prev_start, last_start, temp_files, podcast_sent>>
  /\ UNCHANGED not_audio

(* create_podcast, lines 365-384: the files are read and unlinked in turn; *)
(* k of them are done when a read raises, all of them when none does.      *)
Mix(k) ==
  /\ apc = "mixing"
  /\ k \in 0..Len(audio_segments)
  /\ temp_files' = temp_files \ {audio_segments[j] : j \in 1..k}
  /\ apc' = IF k < Len(audio_segments) THEN "mix_error" ELSE "export"
  /\ UNCHANGED <<script_len, seg, audio_segments, warned, attempt, retry_delay,
                 call_outcomes, call_waits, call_result, pnow, last_request_time,
                 prev_start, last_start, podcast_sent>>
  /\ UNCHANGED not_audio

(* create_podcast, lines 386-390: the podcast is normalized and exported   *)
(* to its file.                                                            *)
Export(raises) ==
  /\ apc = "export"
  /\ IF raises
       THEN apc' = "mix_error" /\ UNCHANGED temp_files
       ELSE apc' = "send" /\ temp_files' = temp_files \cup {OutputFile}
  /\ UNCHANGED <<script_len, seg, audio_segments, warned, attempt, retry_delay,
                 call_outcomes, call_waits, call_result, pnow, last_request_time,
                 prev_start, last_start, podcast_sent>>
  /\ UNCHANGED not_audio

(* create_podcast, lines 392-393: the file is sent, then unlinked.         *)
SendPodcast(raises) ==
  /\ apc = "send"
  /\ IF raises
       THEN apc' = "mix_error" /\ UNCHANGED <<temp_files, podcast_sent>>
       ELSE /\ apc' = "returned"
            /\ podcast_sent' = TRUE
            /\ temp_files' = temp_files \ {OutputFile}
  /\ UNCHANGED <<script_len, seg, audio_segments, warned, attempt, retry_delay,
                 call_outcomes, call_waits, call_result, pnow, last_request_time,
                 prev_start, last_start>>
  /\ UNCHANGED not_audio

(* create_podcast, lines 398-400: the files of audio_segments that still   *)
(* exist are unlinked.                                                     *)
CleanedUp(files, segments) == files \ Range(segments)

(* create_podcast, lines 395-400: the handler of the mixing reports the    *)
(* error, then cleans up.                                                  *)
MixError(raises) ==
  /\ apc = "mix_error"
  /\ IF raises
       THEN apc' = "error" /\ UNCHANGED temp_files
       ELSE apc' = "returned" /\ temp_files' = CleanedUp(temp_files, audio_segments)
  /\ UNCHANGED <<script_len, seg, audio_segments, warned, attempt, retry_delay,
                 call_outcomes, call_waits, call_result, pnow, last_request_time,
                 prev_start, last_start, podcast_sent>>
  /\ UNCHANGED not_audio

(* create_podcast, lines 405-406: the outer handler reports the error.     *)
OuterError(raises) ==
  /\ apc = "error"
  /\ apc' = IF raises THEN "raised" ELSE "returned"
  /\ UNCHANGED <<script_len, seg, audio_segments, warned, attempt, retry_delay,
                 call_outcomes, call_waits, call_result, pnow, last_request_time,
                 prev_start, last_start, temp_files, podcast_sent>>
  /\ UNCHANGED not_audio

NextAudio ==
  \/ \E n \in 1..MaxSegments, now \in StartTimes : CreatePodcast(n, now)
  \/ \E ok \in BOOLEAN : IntroEffect(ok)
  \/ \E r \in BOOLEAN : SegmentAnnounce(r)
  \/ \E o \in AttemptOutcomes, d \in Durations : Attempt(o, d)
  \/ Backoff
  \/ \E ok \in BOOLEAN, d \in Durations : Transition(ok, d)
  \/ \E r \in BOOLEAN : SegmentWarn(r)
  \/ \E r \in BOOLEAN : AbortEmpty(r)
  \/ \E ok \in BOOLEAN : OutroEffect(ok)
  \/ \E r \in BOOLEAN : MixAnnounce(r)
  \/ \E k \in 0..(2 * MaxSegments + 1) : Mix(k)
  \/ \E r \in BOOLEAN : Export(r)
  \/ \E r \in BOOLEAN : SendPodcast(r)
  \/ \E r \in BOOLEAN : MixError(r)
  \/ \E r \in BOOLEAN : OuterError(r)

(* ======================================================================= *)
(*                            QUIZ GENERATION                              *)
(* ======================================================================= *)
(* create_quiz, lines 556-577: num_questions is 5 or the integer given.    *)
MaxRequested == 4
RequestedCounts == 1..MaxRequested

(* create_quiz, line 621: fewer questions are tried above this count.      *)
FewerThreshold == 3
(* create_quiz, line 623: the count of the last attempt.                   *)
ReducedCount == 3

(* generate_quiz_questions, line 149: the keys every question must have.   *)
RequiredKeys == {"question", "options", "correct", "explanation"}

(* One question of a reply: the keys it has, whether its options are a     *)
(* JSON object, the labels of its options and its correct label.           *)
Question(keys, is_dict, options, correct) ==
  [keys |-> keys, is_dict |-> is_dict, options |-> options, correct |-> correct]

(* The questions a reply may hold: two that follow the format and one for  *)
(* each way of breaking it.                                                *)
ReplyQuestions ==
  { Question(RequiredKeys, TRUE, Labels, "A"),
    Question(RequiredKeys, TRUE, Labels, "D"),
    Question(RequiredKeys \ {"explanation"}, TRUE, Labels, "A"),
    Question(RequiredKeys, FALSE, Labels, "A"),
    Question(RequiredKeys, TRUE, {"A", "B", "C"}, "A"),
    Question(RequiredKeys, TRUE, Labels \cup {"E"}, "A"),
    Question(RequiredKeys, TRUE, {"A", "B", "C", "E"}, "A"),
    Question(RequiredKeys, TRUE, Labels, "E") }

RECURSIVE Lists(_, _)
(* The sequences of at most n members of S. *)
Lists(S, n) ==
  IF n = 0 THEN {<<>>}
  ELSE LET shorter == Lists(S, n - 1)
       IN shorter \cup {Append(l, x) : l \in {s \in shorter : Len(s) = n - 1}, x \in S}

(* The most questions in a reply.                                          *)
MaxReply == 2

(* What the language model replies: a JSON object with a "questions" list, *)
(* or anything else (no reply, no JSON, no such key, not a list).          *)
NoReply == [ok |-> FALSE, questions |-> <<>>]
Replies ==
  {NoReply} \cup {[ok |-> TRUE, questions |-> l] : l \in Lists(ReplyQuestions, MaxReply)}

(* generate_quiz_questions, lines 148-157, without the check of the        *)
(* correct label.                                                          *)
ValidUnchecked(q) ==
  /\ RequiredKeys \subseteq q.keys
  /\ q.is_dict /\ Cardinality(q.options) = 4
  /\ \A opt \in {"A", "B", "C", "D"} : opt \in q.options

(* generate_quiz_questions, lines 148-157: the body of the loop raises for *)
(* a question that fails one of the four checks.                           *)
Valid(q) ==
  /\ RequiredKeys \subseteq q.keys
  /\ q.is_dict /\ Cardinality(q.options) = 4
  /\ \A opt \in {"A", "B", "C", "D"} : opt \in q.options
  /\ q.correct \in {"A", "B", "C", "D"}

(* generate_quiz_questions, lines 120-171: the list of the reply, or []    *)
(* when anything raised.                                                   *)
Validated(reply) ==
  IF /\ reply.ok
     /\ reply.questions # <<>>
     /\ \A i \in 1..Len(reply.questions) : Valid(reply.questions[i])
    THEN reply.questions
    ELSE <<>>

(* The correct label of each question of a list. *)
CorrectLabels(qs) == [i \in 1..Len(qs) |-> qs[i].correct]

InitGenerate ==
  /\ gpc = "idle"
  /\ num_questions = 0
  /\ gen_calls = <<>>
  /\ payload = NoReply
  /\ gen_questions = <<>>

(* create_quiz, lines 552-610: the arguments are parsed and the content is *)
(* read.                                                                   *)
GenerateBegin(n) ==
  /\ gpc = "idle"
  /\ gpc' = "first"
  /\ num_questions' = n
  /\ UNCHANGED <<gen_calls, payload, gen_questions>>
  /\ UNCHANGED <<quiz_vars, not_gen>>

(* One call of generate_quiz_questions(content, count) that the model      *)
(* answers with reply.                                                     *)
Called(content, count, reply) ==
  /\ payload' = reply
  /\ gen_questions' = Validated(reply)
  /\ gen_calls' = Append(gen_calls, [content |-> content, count |-> count,
                                     found |-> Validated(reply) # <<>>])

(* create_quiz, line 621, with the condition always true.                  *)
FewerAlways(n) == TRUE

(* create_quiz, line 621: num_questions > 3.                               *)
Fewer(n) == n > FewerThreshold

(* create_quiz, lines 611-615: the first attempt, with the full content.   *)
FirstAttempt(reply, raises) ==
  /\ gpc = "first"
  /\ IF raises
       THEN gpc' = "error" /\ UNCHANGED <<gen_calls, payload, gen_questions>>
       ELSE /\ Called("content", num_questions, reply)
            /\ gpc' = IF Validated(reply) # <<>> THEN "generated" ELSE "summarize"
  /\ UNCHANGED num_questions
  /\ UNCHANGED <<quiz_vars, not_gen>>

(* create_quiz, lines 616-617: the notice and summarize_content; either    *)
(* may raise.                                                              *)
Summarize(raises) ==
  /\ gpc = "summarize"
  /\ gpc' = IF raises THEN "error" ELSE "second"
  /\ UNCHANGED <<num_questions, gen_calls, payload, gen_questions>>
  /\ UNCHANGED <<quiz_vars, not_gen>>

(* create_quiz, lines 618-621: the second attempt, with the summary.       *)
SecondAttempt(reply) ==
  /\ gpc = "second"
  /\ Called("summary", num_questions, reply)
  /\ gpc' = IF Validated(reply) # <<>> THEN "generated"
            ELSE IF Fewer(num_questions) THEN "third" ELSE "failed"
  /\ UNCHANGED num_questions
  /\ UNCHANGED <<quiz_vars, not_gen>>

(* create_quiz, lines 622-625: the third attempt, with three questions.    *)
ThirdAttempt(reply, raises) ==
  /\ gpc = "third"
  /\ IF raises
       THEN gpc' = "error" /\ UNCHANGED <<gen_calls, payload, gen_questions>>
       ELSE /\ Called("summary", ReducedCount, reply)
            /\ gpc' = IF Validated(reply) # <<>> THEN "generated" ELSE "failed"
  /\ UNCHANGED num_questions
  /\ UNCHANGED <<quiz_vars, not_gen>>

(* create_quiz, lines 625-627: the failure is reported; create_quiz ends.  *)
GenerateFailed(raises) ==
  /\ gpc = "failed"
  /\ gpc' = IF raises THEN "error" ELSE "returned"
  /\ UNCHANGED <<num_questions, gen_calls, payload, gen_questions>>
  /\ UNCHANGED <<quiz_vars, not_gen>>

(* create_quiz, lines 695-698: the error is reported; create_quiz ends.    *)
GenerateError ==
  /\ gpc = "error"
  /\ gpc' = "returned"
  /\ UNCHANGED <<num_questions, gen_calls, payload, gen_questions>>
  /\ UNCHANGED <<quiz_vars, not_gen>>

(* create_quiz, lines 629-640: the session is stored with the questions    *)
(* of the last attempt.                                                    *)
GenerateStored ==
  /\ gpc = "generated"
  /\ CreateQuiz(CorrectLabels(gen_questions))

NextGenerate ==
  \/ \E n \in RequestedCounts : GenerateBegin(n)
  \/ gpc = "first" /\ \E reply \in Replies, raises \in BOOLEAN : FirstAttempt(reply, raises)
  \/ \E raises \in BOOLEAN : Summarize(raises)
  \/ gpc = "second" /\ \E reply \in Replies : SecondAttempt(reply)
  \/ gpc = "third" /\ \E reply \in Replies, raises \in BOOLEAN : ThirdAttempt(reply, raises)
  \/ \E raises \in BOOLEAN : GenerateFailed(raises)
  \/ GenerateError
  \/ GenerateStored

(* ======================================================================= *)
(*                      SEVERAL SESSIONS AT A TIME                         *)
(* ======================================================================= *)
(* The stores with several sessions in them, each reduced to the fields    *)
(* that a reaction reads or writes.  Every session id and every message id *)
(* is the id of a Discord message of its own (lines 631, 899 and 1462);    *)
(* the sessions of a store are numbered in the order of their commands.    *)
MaxSessions == 2
MaxPosted == 3
MaxDelivered == 2
SessionIds == 1..MaxSessions

(* The emojis of the controls: the join of line 669, the option A of line  *)
(* 752, the check mark of lines 945 and 1600, the cross of lines 945 and   *)
(* 1608 and the next-card control of line 1597.                            *)
ControlEmojis == {"join", "A", "check", "cross", "next"}

(* The number of cards of every set of the store.                          *)
SetCards == 2

InitSessions ==
  /\ quiz_table = <<>>
  /\ debate_table = <<>>
  /\ set_table = <<>>
  /\ posted = 0
  /\ delivered = 0
  /\ pending_shows = <<>>
  /\ reacted_msg = 0

(* create_quiz, lines 630-664: the quiz is stored and the invitation is    *)
(* sent; the join loop waits for reactions to it.                          *)
OpenQuiz(id) ==
  /\ id = Cardinality(DOMAIN quiz_table) + 1
  /\ posted < MaxPosted
  /\ posted' = posted + 1
  /\ quiz_table' = (id :> [msg |-> posted + 1, started |-> FALSE,
                           participants |-> {}, answered_users |-> {}])
                   @@ quiz_table
  /\ UNCHANGED <<debate_table, set_table, delivered, pending_shows, reacted_msg>>

(* create_quiz, line 691, and run_quiz, lines 748-757: the join loop is    *)
(* left, the quiz starts and a question is sent; the answer loop waits for *)
(* reactions to it.                                                        *)
AskQuestion(id) ==
  /\ id \in DOMAIN quiz_table
  /\ ~quiz_table[id].started
  /\ quiz_table[id].participants # {}
  /\ posted < MaxPosted
  /\ posted' = posted + 1
  /\ quiz_table' = [quiz_table EXCEPT ![id].msg = posted + 1,
                                      ![id].started = TRUE,
                                      ![id].answered_users = {}]
  /\ UNCHANGED <<debate_table, set_table, delivered, pending_shows, reacted_msg>>

(* start_debate, lines 899-940: the debate is stored and announced; the    *)
(* loop of line 952 waits for reactions to the announcement.               *)
OpenDebate(id) ==
  /\ id = Cardinality(DOMAIN debate_table) + 1
  /\ posted < MaxPosted
  /\ posted' = posted + 1
  /\ debate_table' = (id :> [msg |-> posted + 1,
                             participants |-> [side \in Sides |-> NoUser]])
                     @@ debate_table
  /\ UNCHANGED <<quiz_table, set_table, delivered, pending_shows, reacted_msg>>

(* create_flashcards, lines 1461-1478 and 1508, with show_flashcard, lines *)
(* 1559-1562: the set is stored and its first card is displayed.           *)
OpenSet(id) ==
  /\ id = Cardinality(DOMAIN set_table) + 1
  /\ posted < MaxPosted
  /\ posted' = posted + 1
  /\ set_table' = (id :> [current_message |-> posted + 1, current_card |-> 0,
                          correct |-> 0, incorrect |-> 0])
                  @@ set_table
  /\ UNCHANGED <<quiz_table, debate_table, delivered, pending_shows, reacted_msg>>

(* create_quiz, lines 666-671, without the comparison of the message.      *)
JoinMatchesAny(q, emoji, msg) == emoji = "join"

(* create_quiz, lines 666-671: the check of the join loop (the user is not *)
(* a bot).                                                                 *)
JoinMatches(q, emoji, msg) == msg = q.msg /\ emoji = "join"

(* run_quiz, lines 765-770: the check of the answer loop.                  *)
AnswerMatches(q, emoji, msg, u) ==
  /\ msg = q.msg
  /\ emoji = "A"
  /\ u \in q.participants
  /\ u \notin q.answered_users

(* start_debate, lines 942-949: the check of the loop of line 952.         *)
SideMatches(d, emoji, msg, in_voice) ==
  /\ msg = d.msg
  /\ emoji \in {"check", "cross"}
  /\ in_voice

(* on_reaction_add, lines 1578-1588: the set the handler finds.            *)
SetMatches(s, msg) == s.current_message = msg

(* create_quiz, lines 676-678, and run_quiz, lines 762-773: what the       *)
(* pending wait_for of one quiz does with the reaction.                    *)
QuizAfter(q, emoji, msg, u) ==
  IF ~q.started /\ JoinMatches(q, emoji, msg)
    THEN [q EXCEPT !.participants = @ \cup {u}]
  ELSE IF q.started /\ AnswerMatches(q, emoji, msg, u)
    THEN [q EXCEPT !.answered_users = @ \cup {u}]
  ELSE q

(* start_debate, lines 952-960: what the pending wait_for of one debate    *)
(* does with the reaction; the loop waits while a side is free.            *)
DebateAfter(d, emoji, msg, u, in_voice) ==
  IF /\ d.participants["for"] = NoUser \/ d.participants["against"] = NoUser
     /\ SideMatches(d, emoji, msg, in_voice)
    THEN IF emoji = "check" /\ d.participants["for"] = NoUser
           THEN [d EXCEPT !.participants["for"] = u]
         ELSE IF emoji = "cross" /\ d.participants["against"] = NoUser
           THEN [d EXCEPT !.participants["against"] = u]
         ELSE d
    ELSE d

(* on_reaction_add, lines 1594-1611, up to the first await of the branch   *)
(* of the emoji.                                                           *)
SetAfter(s, emoji, msg) ==
  IF ~SetMatches(s, msg) THEN s
  ELSE IF emoji = "next"
    THEN [s EXCEPT !.current_card = (@ + 1) % SetCards]
  ELSE IF emoji = "check" THEN [s EXCEPT !.correct = @ + 1]
  ELSE IF emoji = "cross" THEN [s EXCEPT !.incorrect = @ + 1]
  ELSE s

(* The calls of on_reaction_add that the reaction leaves suspended: one    *)
(* for a control of the set that tracks the message.                       *)
ShowsAfter(emoji, msg) ==
  IF emoji \in {"next", "check", "cross"} /\ \E id \in DOMAIN set_table : SetMatches(set_table[id], msg)
    THEN LET id == CHOOSE i \in DOMAIN set_table : SetMatches(set_table[i], msg)
         IN Append(pending_shows,
                   [set |-> id, pc |-> IF emoji = "next" THEN "show" ELSE "marked"])
    ELSE pending_shows

(* One reaction_add event: user u, who is not a bot, adds emoji to message *)
(* msg.  discord.py hands the event to every pending wait_for (lines 676,  *)
(* 762 and 953) and to the listener on_reaction_add (line 1573).           *)
ReactionDelivered(emoji, msg, u, in_voice) ==
  /\ delivered < MaxDelivered
  /\ msg \in 1..posted
  /\ delivered' = delivered + 1
  /\ quiz_table' = [id \in DOMAIN quiz_table |-> QuizAfter(quiz_table[id], emoji, msg, u)]
  /\ debate_table' = [id \in DOMAIN debate_table |->
                        DebateAfter(debate_table[id], emoji, msg, u, in_voice)]
  /\ set_table' = [id \in DOMAIN set_table |-> SetAfter(set_table[id], emoji, msg)]
  /\ pending_shows' = ShowsAfter(emoji, msg)
  /\ reacted_msg' = msg
  /\ UNCHANGED posted

(* on_reaction_add, lines 1604-1607 and 1612-1615: after the confirmation  *)
(* the index advances; show_flashcard is called.                           *)
ShowMarked(k) ==
  /\ k \in 1..Len(pending_shows)
  /\ pending_shows[k].pc = "marked"
  /\ set_table' = [set_table EXCEPT ![pending_shows[k].set].current_card =
                                      (@ + 1) % SetCards]
  /\ pending_shows' = [pending_shows EXCEPT ![k].pc = "show"]
  /\ UNCHANGED <<quiz_table, debate_table, posted, delivered, reacted_msg>>

(* show_flashcard, lines 1559-1562: the card is sent and its message       *)
(* becomes the tracked message of the set.                                 *)
ShowSent(k) ==
  /\ k \in 1..Len(pending_shows)
  /\ pending_shows[k].pc = "show"
  /\ posted < MaxPosted
  /\ posted' = posted + 1
  /\ set_table' = [set_table EXCEPT ![pending_shows[k].set].current_message = posted + 1]
  /\ pending_shows' = SubSeq(pending_shows, 1, k - 1)
                      \o SubSeq(pending_shows, k + 1, Len(pending_shows))
  /\ UNCHANGED <<quiz_table, debate_table, delivered, reacted_msg>>

NextSessions ==
  /\ \/ \E id \in SessionIds : OpenQuiz(id)
     \/ \E id \in SessionIds : AskQuestion(id)
     \/ \E id \in SessionIds : OpenDebate(id)
     \/ \E id \in SessionIds : OpenSet(id)
     \/ \E e \in ControlEmojis, m \in 1..MaxPosted, u \in Users, v \in BOOLEAN :
          ReactionDelivered(e, m, u, v)
     \/ \E k \in 1..MaxDelivered : ShowMarked(k)
     \/ \E k \in 1..MaxDelivered : ShowSent(k)
  /\ UNCHANGED not_sess

(* ======================================================================= *)
(*                            CHUNKED RESULTS                              *)
(* ======================================================================= *)
(* summarize, line 501, run_debate, line 1024, end_whiteboard, line 1225:  *)
(* the size of a chunk.                                                    *)
ChunkSize == 1900

(* The longest texts need MaxChunks chunks.                                *)
MaxChunks == 3

(* The three places that send a text in chunks.                            *)
ChunkSites == {"summarize", "debate", "whiteboard"}

(* The lengths of the texts: none, and around the edges of every chunk.    *)
TextLengths ==
  {0} \cup {k * ChunkSize + d : k \in 0..(MaxChunks - 1),
                               d \in {1, 2, 3, ChunkSize \div 2, ChunkSize - 1,
                                      ChunkSize}}

(* A text of n characters; the characters repeat with a period that does   *)
(* not divide the size of a chunk.                                         *)
Text(n) == [i \in 1..n |-> i % 97]

(* range(0, len(summary), 1900) with too wide a step.                      *)
ChunkStartsWide(n) == {i \in 0..(n - 1) : i % (ChunkSize + 1) = 0}

(* range(0, len(summary), 1900): the indices where the chunks start.       *)
ChunkStarts(n) == {i \in 0..(n - 1) : i % ChunkSize = 0}

(* summary[i:i+1900]: a slice ends where the text ends.                    *)
Slice(text, i) ==
  SubSeq(text, i + 1, IF i + ChunkSize < Len(text) THEN i + ChunkSize ELSE Len(text))

RECURSIVE ChunksFrom(_, _, _)
(* The slices at the starts of S that are at or after i, in rising order.  *)
ChunksFrom(text, S, i) ==
  IF \A j \in S : j < i THEN <<>>
  ELSE LET first == CHOOSE j \in S : j >= i /\ \A l \in S : l >= i => j <= l
       IN <<Slice(text, first)>> \o ChunksFrom(text, S, first + 1)

(* [summary[i:i+1900] for i in range(0, len(summary), 1900)]               *)
Chunks(text) == ChunksFrom(text, ChunkStarts(Len(text)), 0)

InitChunks ==
  /\ cpc = "idle"
  /\ ch_text = <<>>
  /\ ch_chunks = <<>>
  /\ ch_sent = <<>>

(* summarize, lines 498-505, run_debate, lines 1021-1025, end_whiteboard,  *)
(* lines 1220-1226: the text is there and the list of chunks is built.     *)
(* summarize reads chunks[0], which raises for an empty list; the loops of *)
(* the two others send nothing then.                                       *)
ChunkBegin(site, n) ==
  /\ cpc = "idle"
  /\ ch_text' = Text(n)
  /\ ch_chunks' = Chunks(Text(n))
  /\ ch_sent' = <<>>
  /\ cpc' = IF Chunks(Text(n)) # <<>> THEN "sending"
            ELSE IF site = "summarize" THEN "error" ELSE "done"
  /\ UNCHANGED not_chunk

(* summarize, lines 504-511, run_debate, lines 1025-1026, end_whiteboard,  *)
(* lines 1226-1227: the next chunk is sent; a send that raises ends the    *)
(* loop.                                                                   *)
ChunkSend(raises) ==
  /\ cpc = "sending"
  /\ IF raises
       THEN cpc' = "error" /\ UNCHANGED ch_sent
       ELSE /\ ch_sent' = Append(ch_sent, ch_chunks[Len(ch_sent) + 1])
            /\ cpc' = IF Len(ch_sent) + 1 = Len(ch_chunks) THEN "done" ELSE "sending"
  /\ UNCHANGED <<ch_text, ch_chunks>>
  /\ UNCHANGED not_chunk

(* summarize, lines 513-514, run_debate, lines 1030-1032, end_whiteboard,  *)
(* lines 1250-1253: the handler reports the error.                         *)
ChunkError ==
  /\ cpc = "error"
  /\ cpc' = "failed"
  /\ UNCHANGED <<ch_text, ch_chunks, ch_sent>>
  /\ UNCHANGED not_chunk

NextChunks ==
  \/ \E site \in ChunkSites, n \in TextLengths : ChunkBegin(site, n)
  \/ \E raises \in BOOLEAN : ChunkSend(raises)
  \/ ChunkError

(* ======================================================================= *)
(*                            SPEECH REQUESTS                              *)
(* ======================================================================= *)
(* The calls of generate_audio of one history.                             *)
MaxCalls == 2

(* What the post of line 34 gives: no response at all (status 0: the       *)
(* connection failed and httpx raised), or a response with a status and a  *)
(* body.                                                                   *)
NoResponse == [status |-> 0, body |-> "none"]
Responses ==
  {NoResponse} \cup
  {[status |-> st, body |-> "body"] : st \in {200, 204, 301, 400, 401, 404, 429, 500, 503}}

(* Response.raise_for_status before httpx 0.18: only 4xx and 5xx raise.    *)
IsSuccessOrRedirect(status) == status < 400

(* Response.raise_for_status, line 37: it returns for a 2xx status and     *)
(* raises HTTPStatusError for any other.                                   *)
IsSuccess(status) == 200 <= status /\ status <= 299

(* A ValueError with the message of one of the raise statements.           *)
Raised(reason, code) ==
  [raised |-> TRUE, type |-> "ValueError", reason |-> reason, code |-> code,
   content |-> "none"]

(* generate_audio, lines 14-47: the bytes returned or the exception        *)
(* raised.  The ValueError of line 36 is raised inside the try and is      *)
(* caught by line 46, which raises a ValueError with its message after a   *)
(* prefix; so is the exception of a failed connection.                     *)
GenerateAudio(has_key, response) ==
  IF ~has_key THEN Raised("missing_key", 0)
  ELSE IF response = NoResponse THEN Raised("failed: connection", 0)
  ELSE IF response.status = 401 THEN Raised("failed: invalid_key", 0)
  ELSE IF IsSuccess(response.status)
    THEN [raised |-> FALSE, type |-> "bytes", reason |-> "none", code |-> 0,
          content |-> response.body]
  ELSE IF response.status = 429 THEN Raised("rate_limit", 0)
  ELSE IF response.status = 400 THEN Raised("bad_request", 0)
  ELSE Raised("provider_error", response.status)

InitSpeech == ga_calls = <<>>

(* One call of generate_audio.                                             *)
SpeechCall(has_key, response) ==
  /\ Len(ga_calls) < MaxCalls
  /\ ga_calls' = Append(ga_calls, [has_key |-> has_key, response |-> response,
                                   result |-> GenerateAudio(has_key, response)])
  /\ UNCHANGED not_speech

NextSpeech == \E has_key \in BOOLEAN, response \in Responses : SpeechCall(has_key, response)

(* ======================================================================= *)
(*                              LOCAL FILES                                *)
(* ======================================================================= *)
(* FileStorage, utils/storage.py: the directories of line 10-13 that hold  *)
(* files written by the save_ methods.                                     *)
FileDirs == {"temp", "audio", "pdf"}

MaxNames == 2
MaxHours == 3

FileNames == 1..MaxNames
Hours == 0..MaxHours

(* The directories cleanup_old_files walks through, line 60.               *)
PurgedDirs == {"temp", "audio"}

(* open(file_path, 'wb') and write: the file is created, or truncated and  *)
(* written again, and its change time is the time of the write.            *)
Written(dir, name) ==
  {f \in stored : ~(f.dir = dir /\ f.name = name)}
    \cup {[dir |-> dir, name |-> name, ctime |-> clock]}

(* line 62-63: file_age = current_time - getctime; older than the          *)
(* threshold when file_age > max_age_hours * 3600.                         *)
FileAge(f) == clock - f.ctime
TooOld(f, max_age_hours) == FileAge(f) > max_age_hours

InitStorage ==
  /\ stored = {}
  /\ clock = 0

(* save_temp_file, lines 33-40.                                            *)
SaveTempFile(name) ==
  /\ stored' = Written("temp", name)
  /\ UNCHANGED clock
  /\ UNCHANGED not_store

(* save_audio, lines 42-47 (speak, commands.py line 526).                  *)
SaveAudio(name) ==
  /\ stored' = Written("audio", name)
  /\ UNCHANGED clock
  /\ UNCHANGED not_store

(* save_pdf, lines 49-54 (summarize, commands.py line 477).                *)
SavePdf(name) ==
  /\ stored' = Written("pdf", name)
  /\ UNCHANGED clock
  /\ UNCHANGED not_store

(* An hour goes by.                                                        *)
HourPasses ==
  /\ clock < MaxHours
  /\ clock' = clock + 1
  /\ UNCHANGED stored
  /\ UNCHANGED not_store

(* cleanup_old_files, lines 56-65 (cleanup, commands.py line 539): every   *)
(* file of the directories of line 60 that is older than the threshold is  *)
(* unlinked.                                                               *)
CleanupOldFiles(max_age_hours) ==
  /\ stored' = {f \in stored : ~(f.dir \in PurgedDirs /\ TooOld(f, max_age_hours))}
  /\ UNCHANGED clock
  /\ UNCHANGED not_store

NextStorage ==
  \/ \E name \in FileNames : SaveTempFile(name)
  \/ \E name \in FileNames : SaveAudio(name)
  \/ \E name \in FileNames : SavePdf(name)
  \/ HourPasses
  \/ \E h \in Hours : CleanupOldFiles(h)

(* ======================================================================= *)
(*                      QUIZ: REACTIONS DURING A SEND                      *)
(* ======================================================================= *)
(* wait_for listens for a reaction only while run_quiz awaits it, lines    *)
(* 762-771.  While run_quiz awaits the send of line 786 no listener of     *)
(* reaction_add is registered for the quiz: a reaction the gateway         *)
(* dispatches then reaches no check and is not kept for the next wait_for. *)
not_quiz_missed == <<score_vars, debate_vars, wb_vars, fc_vars, audio_vars,
                     gen_vars, sess_vars, chunk_vars, speech_vars, lb_vars,
                     store_vars, judge_vars>>

InitAnswers == missed = {}

(* The participants with a reaction of this question that was missed.      *)
MissedUsers == {m.user : m \in {x \in missed : x.question = qi}}

(* run_quiz, line 786 in progress: participant u, who has not answered     *)
(* this question, adds the reaction of an option at time t of the window.  *)
AnswerMissed(u, option, t) ==
  /\ qpc = "answer_ack"
  /\ t >= elapsed /\ t < AnswerWindow
  /\ AnswerCheck(u)
  /\ u \notin MissedUsers
  /\ missed' = missed \cup {[user |-> u, question |-> qi, option |-> option]}
  /\ elapsed' = t
  /\ UNCHANGED not_quiz_missed
  /\ UNCHANGED join_vars
  /\ UNCHANGED <<active_quizzes, questions, scores, participants, started, qpc, qi,
                 answered_users, selected_option, reveals, lb_after, final_shown,
                 quiz_raised>>

NextAnswers ==
  \/ NextQuiz
  \/ \E u \in Users, o \in Labels, t \in AnswerTimes : AnswerMissed(u, o, t)

(* ======================================================================= *)
(*                            SPECIFICATIONS                               *)
(* ======================================================================= *)
Init ==
  /\ InitQuiz /\ IdleScore /\ InitDebate /\ InitWhiteboard /\ InitFlashcards
  /\ InitAudio /\ InitGenerate /\ InitSessions /\ InitChunks
  /\ InitSpeech
  /\ InitStorage
  /\ InitAnswers

Next == NextQuiz \/ NextDebate \/ NextWhiteboard \/ NextFlashcards \/ NextAudio

Spec == Init /\ [][Next]_vars

SpecQuiz == Init /\ [][NextQuiz]_vars

ScoreInit ==
  /\ InitQuiz /\ InitScore /\ InitDebate /\ InitWhiteboard /\ InitFlashcards
  /\ InitAudio /\ InitGenerate /\ InitSessions /\ InitChunks
  /\ InitSpeech
  /\ InitStorage
  /\ InitAnswers
SpecScore == ScoreInit /\ [][NextScore]_vars

SpecDebate == Init /\ [][NextDebate]_vars

SpecWhiteboard == Init /\ [][NextWhiteboard]_vars

SpecMessages == Init /\ [][NextMessages]_vars

SpecFlashcards == Init /\ [][NextFlashcards]_vars

SpecCards == Init /\ [][NextCards]_vars

SpecAudio == Init /\ [][NextAudio]_vars

SpecGenerate == Init /\ [][NextGenerate]_vars

SpecSessions == Init /\ [][NextSessions]_vars

SpecChunks == Init /\ [][NextChunks]_vars

SpecSpeech == Init /\ [][NextSpeech]_vars

SpecStorage == Init /\ [][NextStorage]_vars

SpecAnswers == Init /\ [][NextAnswers]_vars

(* The event loop keeps running: a coroutine that can take its next step   *)
(* (a send that completes or raises, a sleep or a wait_for whose time is   *)
(* up) eventually takes one.  Reactions are never forced.                  *)
SpecQuizLive == Init /\ [][NextQuiz]_vars /\ WF_vars(NextQuiz)

SpecDebateLive == Init /\ [][NextDebate]_vars /\ WF_vars(NextDebate)

(* ======================================================================= *)
(*                               PROPERTIES                                *)
(* ======================================================================= *)

(* C1: in run_quiz at most one answer of a participant is scored per       *)
(* question: once the participant is in answered_users, no later step of   *)
(* that question (a further option reaction of the same participant        *)
(* included) changes the participant's score.                              *)
C1_FirstAnswerOnly ==
  [][\A u \in answered_users : u \in DOMAIN scores' /\ scores'[u] = scores[u]]_vars

(* C1's case: everybody joined, user 1 answered the first question         *)
(* correctly at t = 0 and reacted again near the end of the window; the    *)
(* clock moved on, the score did not.                                      *)
C1_Witness ==
  /\ participants = Users
  /\ qpc = "answer_wait"
  /\ qi = 0
  /\ answered_users = {1}
  /\ scores[1] = max_points + 100
  /\ elapsed = NearestTick(99, 10)

(* What lines 776-785 promise for the k-th of the two answers, up to the   *)
(* points at 9.9 s: a correct answer at time t adds 100 + floor((10-t)*10) *)
(* points, 200 at t = 0; an incorrect one adds 0.                          *)
ScoredByFormula(k) ==
  LET t == sc_time[k]
      p == sc_points[k]
  IN  /\ sc_correct[k] =>
           /\ (p - 100) * TicksPerSecond <= (AnswerWindow - t) * 10
           /\ (AnswerWindow - t) * 10 < (p - 100 + 1) * TicksPerSecond
      /\ (sc_correct[k] /\ t = 0) => p = 200
      /\ ~sc_correct[k] => p = 0
(* The points of correct answers never increase with time.                 *)
ScoreNonIncreasing ==
  (sc_n = 2 /\ sc_correct[1] /\ sc_correct[2]) => sc_points[1] >= sc_points[2]

(* C2, as amended: a correct answer accepted at elapsed time t adds        *)
(* 100 + floor((10 - t) * 10) points, an incorrect one adds 0, the points  *)
(* never increase as t increases; a correct answer adds 200 at t = 0 and   *)
(* 101 at t = 9.875, but 100 at the binary time value nearest to 9.9, which*)
(* lies above 9.9.                                                         *)
C2_ScoringInBinaryTime ==
  /\ \A k \in 1..sc_n :
       /\ ScoredByFormula(k)
       /\ (sc_correct[k] /\ sc_time[k] = NearestTick(79, 8)) => sc_points[k] = 101
       /\ (sc_correct[k] /\ sc_time[k] = NearestTick(99, 10)) => sc_points[k] = 100
  /\ ScoreNonIncreasing

(* C2's case: two correct answers, at t = 0 and at the time value nearest  *)
(* to 9.9 s, were scored.                                                  *)
C2_Witness ==
  /\ sc_n = 2
  /\ sc_correct = <<TRUE, TRUE>>
  /\ sc_time = <<0, NearestTick(99, 10)>>
  /\ sc_points = <<200, 100>>

(* C2, as claimed: as above, with exactly 101 points at t = 9.9.           *)
C2_Original ==
  /\ \A k \in 1..sc_n :
       /\ ScoredByFormula(k)
       /\ (sc_correct[k] /\ sc_time[k] = NearestTick(99, 10)) => sc_points[k] = 101
  /\ ScoreNonIncreasing

(* C3: run_quiz reveals the answers in question order, one per question,   *)
(* and shows the standings after the k-th question exactly when k is even  *)
(* or k is the last; a quiz of N questions that ran without error made     *)
(* exactly N reveals.                                                      *)
C3_RevealsAndStandings ==
  LET n == Len(questions)
      due(k) == k % 2 = 0 \/ k = n
  IN  /\ Len(reveals) <= n
      /\ \A k \in 1..Len(reveals) : reveals[k] = k
      /\ \A k \in lb_after : k \in 1..n /\ due(k)
      /\ \A k \in 1..n : (k <= qi /\ qpc # "idle") => (k \in lb_after <=> due(k))
      /\ (qpc = "returned" /\ final_shown) =>
           /\ Len(reveals) = n
           /\ lb_after = {k \in 1..n : due(k)}

(* C3's case: a quiz of three questions ran to its end without error.      *)
C3_Witness ==
  /\ qpc = "returned"
  /\ final_shown
  /\ Len(questions) = 3
  /\ lb_after = {2, 3}

(* C5: once a side of the debate is bound to a user, no step changes the   *)
(* binding.                                                                *)
C5_SideKeepsFirstClaimant ==
  [][\A s \in Sides :
       debate_participants[s] # NoUser => debate_participants'[s] = debate_participants[s]]_vars

(* C5's case: wait_for returned a claim of the side "for" by a user other  *)
(* than the one the side is bound to.                                      *)
C5_Witness ==
  /\ dpc = "wait"
  /\ debate_participants["for"] # NoUser
  /\ d_emoji = ForEmoji
  /\ d_user # debate_participants["for"]

(* C6, as claimed: while a side is unclaimed the wait for participants     *)
(* lasts at most 300 s and ends by timeout exactly 300 s after it began,   *)
(* the session is then removed and no phase is entered; a phase is entered *)
(* only with both sides bound.                                             *)
C6_TimeoutAfter300Seconds ==
  /\ dpc = "wait" => dnow - join_opened <= DebateJoinTimeout
  /\ dpc = "cancel" => dnow - join_opened = DebateJoinTimeout
  /\ (dpc = "returned" /\ ~BothBound(debate_participants)) =>
       DebateId \notin active_debates
  /\ ~BothBound(debate_participants) => current_phase = "null"

(* C7, as claimed: when create_quiz or start_debate has finished, the      *)
(* session it inserted is no longer in the store.                          *)
C7_RemovedOnEveryExit ==
  /\ qpc = "returned" => QuizId \notin active_quizzes
  /\ dpc \in {"returned", "raised"} => DebateId \notin active_debates


(* C4: under every interleaving of start_whiteboard, end_whiteboard and    *)
(* image messages the store holds at most one session with status "active" *)
(* per channel; a start_whiteboard command with a valid title is answered  *)
(* with the rejection and creates nothing when the channel has an active   *)
(* session, and otherwise creates one active session of that channel.      *)
AtMostOneActive == \A ch \in Channels : Cardinality(ActiveIn(ch)) <= 1
StartHandled ==
  (wb_last_start'.n # wb_last_start.n /\ wb_last_start'.title_ok) =>
    LET ch == wb_last_start'.channel
        had == \E sid \in active_whiteboards :
                 wb_data[sid].channel_id = ch /\ wb_data[sid].status = "active"
    IN  IF had
          THEN /\ wb_last_start'.reply = "rejected"
               /\ active_whiteboards' = active_whiteboards
               /\ wb_data' = wb_data
          ELSE /\ wb_last_start'.reply = "created"
               /\ \E sid \in active_whiteboards' \ active_whiteboards :
                    /\ active_whiteboards' = active_whiteboards \cup {sid}
                    /\ wb_data'[sid].channel_id = ch
                    /\ wb_data'[sid].status = "active"
                    /\ wb_data'[sid].images = <<>>
C4_OneActivePerChannel == []AtMostOneActive /\ [][StartHandled]_vars
(* A start was rejected while an end_whiteboard call of the same channel   *)
(* was still running and an image had been stored.                         *)
C4_Witness ==
  /\ wb_last_start.reply = "rejected"
  /\ \E sid \in active_whiteboards :
       /\ wb_data[sid].channel_id = wb_last_start.channel
       /\ wb_data[sid].images # <<>>
       /\ \E k \in 1..Len(wb_end) : wb_end[k].sid = sid /\ wb_end[k].pc = "image"

(* C8: an end_whiteboard call that found a session has removed it from     *)
(* active_whiteboards when it returns, whichever step raised; a call that  *)
(* found no image has made no vision call and emitted no summary.          *)
C8_EndAlwaysRemoves ==
  /\ \A call \in wb_ended :
       /\ call.sid \notin active_whiteboards
       /\ call.saw_empty => ~call.called_vision /\ ~call.emitted
  /\ \A k \in 1..Len(wb_end) : wb_end[k].saw_empty => ~wb_end[k].called_vision
(* One call returned after the empty report, another after a vision call   *)
(* and an exception, without a summary.                                    *)
C8_Witness ==
  /\ \E call \in wb_ended : call.saw_empty
  /\ \E call \in wb_ended : call.called_vision /\ ~call.emitted

(* C9: once an end_flashcard_session call has returned, the set is no      *)
(* longer in active_flashcard_sets.                                        *)
C9_EndRemovesSet == fc_end_returned => SetId \notin active_flashcard_sets

(* C10: the index after j advances equals the index after i advances       *)
(* exactly when j - i is a multiple of the deck size: n advances return to *)
(* the starting index, fewer never do, from every starting index.          *)
C10_CyclicRoundTrip ==
  /\ current_card = (IF idx_log = <<>> THEN 0 ELSE idx_log[Len(idx_log)])
  /\ \A i, j \in 1..Len(idx_log) :
       i < j => ((idx_log[j] = idx_log[i]) <=> ((j - i) % Len(cards) = 0))
(* A deck of three cards advanced three times from index 1, by the advance *)
(* control and by a mark.                                                  *)
C10_Witness ==
  /\ Len(cards) = 3
  /\ Len(idx_log) = 5
  /\ idx_log[2] = 1 /\ idx_log[5] = 1
  /\ current_card = 1
  /\ stats.correct + stats.incorrect > 0

(* C11: the accuracy of a summary is correct / (correct + incorrect) of    *)
(* the counters of the session when the summary is built, as a percentage  *)
(* to the nearest tenth, and 0 when nothing was judged; the quotient is    *)
(* never taken with a zero denominator.                                    *)
AccuracyMatches ==
  fc_summary.built =>
    LET n == fc_summary.correct + fc_summary.incorrect
        off == fc_summary.accuracy * n - 1000 * fc_summary.correct
    IN  IF n = 0 THEN fc_summary.accuracy = 0
        ELSE 2 * off <= n /\ -2 * off <= n
BuiltFromCounters ==
  fc_summary' # fc_summary =>
    /\ fc_summary'.built
    /\ fc_summary'.correct = stats.correct
    /\ fc_summary'.incorrect = stats.incorrect
C11_AccuracyReported == []AccuracyMatches /\ [][BuiltFromCounters]_vars
(* Two correct marks and an incorrect one, then the end control: 66.7 %.   *)
C11_Witness ==
  /\ fc_summary.built
  /\ fc_summary.correct = 2 /\ fc_summary.incorrect = 1
  /\ fc_summary.accuracy = 667

(* C12: create_quiz stores the session with started = False, no score, no  *)
(* participant and current question 0; a join reaction adds the user to    *)
(* the participants with score 0 while started is False; started becomes   *)
(* True only when the join loop is left with a participant, so started     *)
(* implies that participants is not empty.                                 *)
FormingSteps ==
  /\ (qpc = "idle" /\ qpc' = "invite") =>
       /\ ~started' /\ scores' = <<>> /\ participants' = {}
       /\ current_question' = 0
       /\ QuizId \in active_quizzes'
  /\ (qpc = "join_wait" /\ qpc' = "join_ack") =>
       /\ ~started /\ ~started'
       /\ \E u \in Users :
            /\ participants' = participants \cup {u}
            /\ scores'[u] = 0
            /\ \A v \in DOMAIN scores \ {u} : scores'[v] = scores[v]
  /\ (~started /\ started') =>
       /\ qpc \in {"join_wait", "join_ack"} /\ qpc' = "starting"
       /\ window_closed'
       /\ participants # {}
C13_NoJoinDiscards ==
  (window_closed /\ participants = {}) =>
    /\ ~started
    /\ qpc \in {"cancel", "create_error", "returned"}
    /\ reveals = <<>>
    /\ qpc = "returned" => QuizId \notin active_quizzes

(* C20, as claimed: the join window closes no later than 10 seconds after  *)
(* it opened, whatever join reactions arrive.                              *)
C20_JoinWindowTenSeconds ==
  qpc \in {"join_wait", "join_ack", "cancel", "starting"} => jnow <= JoinTimeoutSeconds

(* C14, as claimed: a call of _generate_audio_with_retry makes at most 3   *)
(* attempts, sleeps 5 s after the first failed attempt and 10 s after the  *)
(* second, returns the audio of the first attempt that gave some, and      *)
(* raises when all 3 attempts failed to give audio.                        *)
C14_RetryWithBackoff ==
  LET k == Len(call_outcomes)
      failed == Cardinality({j \in 1..k : call_outcomes[j] # "audio"})
  IN  /\ k <= max_retries
      /\ \A j \in 1..Len(call_waits) : call_waits[j] = InitialRetryDelay * 2^(j - 1)
      /\ (apc = "calling" /\ call_result = "pending") =>
           failed = k /\ Len(call_waits) = k
      /\ call_result = "audio" =>
           /\ call_outcomes[k] = "audio" /\ failed = k - 1
           /\ Len(call_waits) = k - 1
      /\ call_result \in {"none", "raised"} =>
           /\ failed = max_retries /\ Len(call_waits) = max_retries - 1
           /\ call_result = "raised"


(* ----------------------------------------------------------------------- *)
(* C19: within one debate session current_phase takes the values null,     *)
(* opening, main, closing in exactly that order, nothing skipped, repeated *)
(* or revisited; a 30-second break follows the opening and main phases     *)
(* and not the closing phase; the summary is requested only once the       *)
(* closing phase has finished.                                             *)
PhaseOrder ==
  {<<"null", "opening">>, <<"opening", "main">>, <<"main", "closing">>}

PhaseSteps ==
  /\ current_phase' # current_phase =>
       /\ <<current_phase, current_phase'>> \in PhaseOrder
       /\ current_phase # "null" =>
            dpc = "break" /\ dnow' = dnow + BreakSeconds
  /\ (dpc = "phase" /\ dpc' \notin {"phase", "run_error"}) =>
       /\ dpc' = IF current_phase \in {"opening", "main"} THEN "break" ELSE "summary"
       /\ dnow' = dnow + PhaseSeconds(Formats[debate_format][current_phase])
  /\ (dpc' = "break" /\ dpc # "break") =>
       dpc = "phase" /\ current_phase \in {"opening", "main"}
  /\ (dpc' = "summary" /\ dpc # "summary") =>
       dpc = "phase" /\ current_phase = "closing"

C19_PhasesInOrder ==
  /\ [](dpc = "break" => current_phase \in {"opening", "main"})
  /\ [](dpc = "summary" => current_phase = "closing")
  /\ [][PhaseSteps]_vars

C19_Witness ==
  /\ dpc = "returned"
  /\ current_phase = "closing"
  /\ DebateId \notin active_debates
  /\ debate_participants["for"] # NoUser
  /\ debate_participants["against"] # NoUser


(* ----------------------------------------------------------------------- *)
(* C15: a quiz session inserted into the store eventually reaches a        *)
(* terminal outcome and is removed from the store, whatever reactions      *)
(* arrive, as long as time and the coroutines make progress.               *)
C15_QuizSessionsEnd ==
  (QuizId \in active_quizzes) ~> (QuizId \notin active_quizzes)

(* The same for a debate session.                                          *)
DebateSessionsEnd ==
  (DebateId \in active_debates) ~> (DebateId \notin active_debates)


(* ----------------------------------------------------------------------- *)
(* C16: handling a mark on the tracked card adds exactly 1 to the counter  *)
(* of the mark and nothing to the other, adds the current index to the     *)
(* reviewed set, and then advances the index to the one after the judged   *)
(* card, modulo the deck size; so the reviewed set is never larger than    *)
(* the number of judgments nor than the deck.                              *)
ReviewedBounded ==
  /\ Cardinality(stats.cards_reviewed) <= stats.correct + stats.incorrect
  /\ Cardinality(stats.cards_reviewed) <= Len(cards)

Judged ==
  /\ stats # stats' /\ cards = cards' =>
       /\ stats'.correct + stats'.incorrect = stats.correct + stats.incorrect + 1
       /\ stats'.correct \in {stats.correct, stats.correct + 1}
       /\ stats'.incorrect \in {stats.incorrect, stats.incorrect + 1}
       /\ stats'.cards_reviewed = stats.cards_reviewed \cup {current_card}
       /\ current_card' = current_card
       /\ Len(fc_tasks') = Len(fc_tasks) + 1
       /\ fc_tasks'[Len(fc_tasks')].pc = "marked"

ThenAdvanced ==
  \A k \in 1..Len(fc_tasks) : \A r \in BOOLEAN :
    TaskMarked(k, r) =>
      current_card' = (fc_tasks[k].current_card_idx + 1) % Len(cards)

C16_MarkThenAdvance ==
  []ReviewedBounded /\ [][Judged]_vars /\ [][ThenAdvanced]_vars

(* What holds of a mark: the judgment is as C16 says, and the index moves  *)
(* one step from where it stands when the confirmation has been sent.      *)
MarkJudgedAndBounded ==
  []ReviewedBounded /\ [][Judged]_vars


(* ----------------------------------------------------------------------- *)
(* C17: the reveal control leaves the current card index and the           *)
(* statistics (correct, incorrect, reviewed set) as they are, however      *)
(* often it is applied in a row; it only shows the current card again,     *)
(* with its answer.                                                        *)
RevealHandled ==
  /\ Len(fc_tasks') = Len(fc_tasks) + 1
  /\ fc_tasks'[Len(fc_tasks')].show_answer

RevealFrame ==
  RevealHandled =>
    /\ current_card' = current_card
    /\ stats' = stats
    /\ cards' = cards
    /\ fc_tasks'[Len(fc_tasks')].pc = "show"
    /\ fc_tasks'[Len(fc_tasks')].shown = current_card

RevealShownFrame ==
  \A k \in 1..Len(fc_tasks) : \A r \in BOOLEAN :
    (TaskShow(k, r) /\ fc_tasks[k].show_answer) =>
      current_card' = current_card /\ stats' = stats /\ cards' = cards

C17_RevealChangesNothing ==
  [][RevealFrame]_vars /\ [][RevealShownFrame]_vars

(* Two reveals in a row on the second card of a deck, after a judgment.    *)
C17_Witness ==
  /\ Len(fc_tasks) = 2
  /\ fc_tasks[1].show_answer /\ fc_tasks[2].show_answer
  /\ fc_tasks[1].shown = 1 /\ fc_tasks[2].shown = 1
  /\ current_card = 1
  /\ stats.correct = 1


(* ----------------------------------------------------------------------- *)
(* C18: of the attachments posted in a channel with an active whiteboard   *)
(* session, each accepted one (image content type, .jpg/.jpeg/.png name)   *)
(* appends exactly one image to the images of the session and adds its     *)
(* submitter to the participants; a rejected one leaves both unchanged,    *)
(* and one rejected for its format is answered by a warning.               *)
AppendedBy(task) ==
  wb_data' = [wb_data EXCEPT ![task.sid].images = Append(@, task.bytes),
                             ![task.sid].participants = @ \cup {task.author}]

AcceptedAppended ==
  \A k \in 1..Len(wb_msg) : \A r \in BOOLEAN :
    MessageRead(k, r) => AppendedBy(wb_msg[k])

NoneDropped ==
  \A k \in 1..Len(wb_msg) : \A r \in BOOLEAN :
    (MessageSent(k, r) /\ Len(wb_msg') < Len(wb_msg)) =>
      \A i \in 1..Len(wb_msg[k].todo) :
        ~Accepted(wb_msg[k].todo[i].is_image, wb_msg[k].todo[i].ext_ok)

RejectedUnchanged ==
  \A sid \in DOMAIN wb_data :
    (wb_data'[sid].images # wb_data[sid].images
       \/ wb_data'[sid].participants # wb_data[sid].participants) =>
      \E k \in 1..Len(wb_msg) :
        /\ wb_msg[k].pc = "read"
        /\ wb_msg[k].sid = sid
        /\ AppendedBy(wb_msg[k])

FormatWarned ==
  \A ch \in Channels, u \in Users, atts \in AttachmentLists :
    (MessageBegin(ch, u, FALSE, atts) /\ atts[1].is_image /\ ~atts[1].ext_ok) =>
      /\ Len(wb_msg') = Len(wb_msg) + 1
      /\ wb_msg'[Len(wb_msg')].pc = "warning"

C18_AttachmentsHandled ==
  [][AcceptedAppended /\ NoneDropped /\ RejectedUnchanged /\ FormatWarned]_vars

(* What holds of the attachments: the images and the participants change   *)
(* only by the append of an accepted attachment whose read has returned,   *)
(* and the warning is sent for an image of another format.                 *)
ReadAppended ==
  \A k \in 1..Len(wb_msg) : MessageRead(k, FALSE) => AppendedBy(wb_msg[k])

AttachmentsWhenRead ==
  [][ReadAppended /\ RejectedUnchanged /\ FormatWarned]_vars


(* ----------------------------------------------------------------------- *)
(* C21: the two sides of a debate are never bound to the same user.        *)
C21_SidesExclusive ==
  debate_participants["for"] # NoUser =>
    debate_participants["for"] # debate_participants["against"]


(* ----------------------------------------------------------------------- *)
(* C22: in create_podcast two consecutive speech requests begin at least   *)
(* min_request_interval = 2 seconds apart.                                 *)
C22_RequestsTwoSecondsApart ==
  prev_start # NoTime => last_start - prev_start >= min_request_interval

(* C23: a call of generate_audio that fails for the API key, missing or    *)
(* refused, is the last attempt of its call: no sleep and no further       *)
(* attempt follow it, and the failure is on its way to the user.           *)
C23_KeyErrorNotRetried ==
  \A j \in 1..Len(call_outcomes) :
    call_outcomes[j] = "bad_key" =>
      /\ j = Len(call_outcomes)
      /\ apc \notin {"sleeping", "calling"}
      /\ call_result = "raised"

(* C24: when create_podcast has finished, however it did, none of the      *)
(* temporary audio files it created is left.                               *)
C24_NoFileLeft ==
  apc \in {"returned", "raised"} => temp_files = {}


(* ----------------------------------------------------------------------- *)
(* C26: the failure of a speech segment is reported for that segment and   *)
(* the loop goes on with the segments after it; without any audio segment  *)
(* the pipeline stops before the mixing and no podcast is produced.        *)
FailureReported ==
  apc = "collected" =>
    \A i \in 0..(script_len - 1) :
      File("speech", i) \in Range(audio_segments) \/ i \in warned

FailureContained ==
  apc = "warn" => apc' \in {"announce", "collected"}

MixedOnlyWithAudio ==
  (apc \in {"mix_announce", "mixing", "export", "send"} \/ podcast_sent) =>
    audio_segments # <<>>

C26_SegmentFailureContained ==
  []FailureReported /\ [][FailureContained]_vars /\ []MixedOnlyWithAudio


(* ----------------------------------------------------------------------- *)
(* The calls of generate_quiz_questions made so far follow the order: the  *)
(* full content with the requested count; the summary with the requested   *)
(* count, only after the first call returned nothing; the summary with     *)
(* three questions, only after the second returned nothing and more than   *)
(* three were requested.                                                   *)
DegradeOrder ==
  /\ Len(gen_calls) <= 3
  /\ Len(gen_calls) >= 1 =>
       /\ gen_calls[1].content = "content"
       /\ gen_calls[1].count = num_questions
  /\ Len(gen_calls) >= 2 =>
       /\ ~gen_calls[1].found
       /\ gen_calls[2].content = "summary"
       /\ gen_calls[2].count = num_questions
  /\ Len(gen_calls) >= 3 =>
       /\ ~gen_calls[2].found
       /\ num_questions > 3
       /\ gen_calls[3].content = "summary"
       /\ gen_calls[3].count = 3

(* The failure is reported only after every attempt that was due.          *)
AllAttemptsMade ==
  gpc = "failed" =>
    /\ Len(gen_calls) = IF num_questions > 3 THEN 3 ELSE 2
    /\ \A j \in 1..Len(gen_calls) : ~gen_calls[j].found

(* A session exists only after an attempt that returned questions, and it  *)
(* is that attempt's list that was the last one asked for.                 *)
InsertedOnlyIfFound ==
  QuizId \in active_quizzes =>
    /\ gen_calls # <<>>
    /\ gen_calls[Len(gen_calls)].found
    /\ \A j \in 1..(Len(gen_calls) - 1) : ~gen_calls[j].found

(* No session exists when all attempts failed or when create_quiz left     *)
(* through its error handler (summarize_content or a send raised).         *)
NoSessionIfFailed ==
  gpc \in {"summarize", "second", "third", "failed", "error", "returned"} =>
    QuizId \notin active_quizzes

(* C25: quiz generation degrades in order (full content with the requested *)
(* count, then the summary with the requested count, then the summary with *)
(* 3 questions when more than 3 were requested), each step only after the  *)
(* one before returned nothing; a session is inserted only if an attempt   *)
(* returned a non-empty list, and none exists if all attempts fail or      *)
(* summarization raises.                                                   *)
C25_DegradeAndRetry ==
  DegradeOrder /\ AllAttemptsMade /\ InsertedOnlyIfFound /\ NoSessionIfFailed

(* The third attempt returned questions and the session was stored.        *)
C25_Witness ==
  /\ QuizId \in active_quizzes
  /\ Len(gen_calls) = 3
  /\ gen_calls[3].found

(* ----------------------------------------------------------------------- *)
(* The schema of a quiz question: the four keys, options that are an       *)
(* object with exactly the labels A, B, C, D, and a correct label among    *)
(* them.                                                                   *)
FollowsSchema(q) ==
  /\ {"question", "options", "correct", "explanation"} \subseteq q.keys
  /\ q.is_dict
  /\ q.options = {"A", "B", "C", "D"}
  /\ q.correct \in {"A", "B", "C", "D"}

(* C29: generate_quiz_questions returns the empty list or a non-empty list *)
(* whose questions all follow the schema; a reply in which one question    *)
(* breaks the schema yields the empty list; so every question stored in a  *)
(* quiz session follows the schema.                                        *)
C29_QuestionsFollowSchema ==
  /\ \A i \in 1..Len(gen_questions) : FollowsSchema(gen_questions[i])
  /\ (\E i \in 1..Len(payload.questions) : ~FollowsSchema(payload.questions[i]))
       => gen_questions = <<>>
  /\ QuizId \in active_quizzes =>
       /\ gen_questions # <<>>
       /\ questions = [i \in 1..Len(gen_questions) |-> gen_questions[i].correct]
       /\ \A i \in 1..Len(questions) : questions[i] \in {"A", "B", "C", "D"}

(* A reply with a question that breaks the schema was refused, and the     *)
(* list of a later reply was stored in the session.                       *)
C29_Witness ==
  /\ QuizId \in active_quizzes
  /\ Len(gen_calls) >= 2
  /\ Len(gen_questions) >= 2

(* ----------------------------------------------------------------------- *)
(* The tracked message is the card message displayed last.                 *)
LatestTracked == current_message = fc_next_msg - 1

(* A display that completes makes its message the tracked one.             *)
DisplayTracked ==
  fc_next_msg' # fc_next_msg =>
    /\ fc_next_msg' = fc_next_msg + 1
    /\ current_message' = fc_next_msg

(* A reaction to a message that is not the tracked one starts no handler   *)
(* work: the index, the statistics and the tracked message stay, and no    *)
(* card is displayed.  (A reaction that starts handler work is counted in  *)
(* fc_controls; the other steps need no look.)                             *)
StaleIgnored ==
  fc_controls' # fc_controls =>
    \A m \in (1..(fc_next_msg - 1)) \ {current_message}, e \in Controls \ {"other"} :
      ReactionAdd(e, m, FALSE) =>
        /\ current_card' = current_card
        /\ stats' = stats
        /\ current_message' = current_message
        /\ fc_tasks' = fc_tasks
        /\ fc_next_msg' = fc_next_msg
        /\ active_flashcard_sets' = active_flashcard_sets

(* C27: a flashcard session tracks exactly one displayed-card message:     *)
(* each completed display replaces current_message with the id of the new  *)
(* message, and a control reaction on an earlier card message changes      *)
(* neither the index nor the statistics and displays nothing.              *)
C27_OneTrackedMessage ==
  []LatestTracked /\ [][DisplayTracked]_vars /\ [][StaleIgnored]_vars

(* Three cards were displayed, two judgments were recorded and no handler  *)
(* is suspended: the first two card messages are stale and a reaction to   *)
(* either can arrive.                                                      *)
C27_Witness ==
  /\ SetId \in active_flashcard_sets
  /\ current_message = 3
  /\ stats.correct + stats.incorrect = 2
  /\ fc_tasks = <<>>
  /\ ENABLED ReactionAdd("correct", 1, FALSE)

(* ----------------------------------------------------------------------- *)
(* The sessions of the stores track messages that differ from one another. *)
TrackedDistinct ==
  /\ \A i, j \in DOMAIN quiz_table : i # j => quiz_table[i].msg # quiz_table[j].msg
  /\ \A i, j \in DOMAIN debate_table : i # j => debate_table[i].msg # debate_table[j].msg
  /\ \A i, j \in DOMAIN set_table :
       i # j => set_table[i].current_message # set_table[j].current_message
  /\ \A i \in DOMAIN quiz_table, j \in DOMAIN debate_table :
       quiz_table[i].msg # debate_table[j].msg
  /\ \A i \in DOMAIN quiz_table, j \in DOMAIN set_table :
       quiz_table[i].msg # set_table[j].current_message
  /\ \A i \in DOMAIN debate_table, j \in DOMAIN set_table :
       debate_table[i].msg # set_table[j].current_message

(* Every session that does not track message m is left as it is.           *)
OthersKept(m) ==
  /\ DOMAIN quiz_table' = DOMAIN quiz_table
  /\ DOMAIN debate_table' = DOMAIN debate_table
  /\ DOMAIN set_table' = DOMAIN set_table
  /\ \A id \in DOMAIN quiz_table :
       quiz_table[id].msg # m => quiz_table'[id] = quiz_table[id]
  /\ \A id \in DOMAIN debate_table :
       debate_table[id].msg # m => debate_table'[id] = debate_table[id]
  /\ \A id \in DOMAIN set_table :
       set_table[id].current_message # m => set_table'[id] = set_table[id]

(* A reaction added to message m changes at most the session tracking m.   *)
ReactionFrame == delivered' # delivered => OthersKept(reacted_msg')

(* The rest of the handler of a flashcard control changes its set only.    *)
HandlerFrame ==
  Len(pending_shows') = Len(pending_shows) =>
    \A k \in 1..Len(pending_shows) :
      pending_shows'[k] # pending_shows[k] =>
        OthersKept(set_table[pending_shows[k].set].current_message)

(* The display that ends a handler changes the tracked message of its set  *)
(* only.                                                                   *)
DisplayFrame ==
  \A id \in DOMAIN set_table :
    (id \in DOMAIN set_table' /\ set_table'[id].current_message # set_table[id].current_message)
      => OthersKept(set_table[id].current_message)

(* C28: sessions are independent entries: a join, answer, side-claim or    *)
(* flashcard control reaction is applied only to the session whose tracked *)
(* message it was added to, and handling it leaves every other session, of *)
(* the same or of another kind, unchanged.                                 *)
C28_SessionsIndependent ==
  /\ []TrackedDistinct
  /\ [][ReactionFrame]_vars /\ [][HandlerFrame]_vars /\ [][DisplayFrame]_vars

(* Two flashcard sets and a debate are open; a check mark was added to the *)
(* card of the first set and was counted there alone.                      *)
C28_Witness ==
  /\ DOMAIN set_table = {1, 2}
  /\ DOMAIN debate_table = {1}
  /\ delivered = 1
  /\ set_table[1].correct = 1
  /\ set_table[2].correct = 0
  /\ debate_table[1].participants["for"] = NoUser

(* ----------------------------------------------------------------------- *)
(* Every card of the set has a difficulty of 1, 2 or 3.                    *)
CardsInRange == \A i \in 1..Len(cards) : cards[i] \in {1, 2, 3}

(* The difficulty a stored card must have for the difficulty of the reply: *)
(* the integer itself when it is 1, 2 or 3, and 1 for anything else.       *)
ExpectedDifficulty(raw) ==
  IF raw.type = "int" /\ raw.value \in {1, 2, 3} THEN raw.value ELSE 1

(* The set is stored only for a reply whose cards all have their fields,   *)
(* and with the expected difficulties; after any other reply no set is     *)
(* stored.                                                                 *)
GenerationChecked ==
  (fpc = "idle" /\ fpc' # "idle") =>
    \A reply \in CardLists(MaxCards) :
      /\ CreateGenerated(reply) =>
           /\ \A i \in 1..Len(reply) : reply[i].complete
           /\ Len(cards') = Len(reply)
           /\ \A i \in 1..Len(reply) : cards'[i] = ExpectedDifficulty(reply[i].difficulty)
      /\ CreateRefused(reply) => active_flashcard_sets' = {} /\ cards' = <<>>
      /\ (\E i \in 1..Len(reply) : ~reply[i].complete) => ~CreateGenerated(reply)

(* The difficulty of every reviewed index is one the summary counts.       *)
CoverageDefined ==
  \A idx \in stats.cards_reviewed :
    idx + 1 \in 1..Len(cards) /\ cards[idx + 1] \in {1, 2, 3}

(* The counts of a summary add up to the reviewed indices it was built of. *)
CoverageSums ==
  fc_summary' # fc_summary =>
    /\ fc_summary'.total_reviewed = Cardinality(stats.cards_reviewed)
    /\ fc_summary'.difficulty_reviewed[1] + fc_summary'.difficulty_reviewed[2]
         + fc_summary'.difficulty_reviewed[3] = Cardinality(stats.cards_reviewed)

(* C30: every card of a flashcard session has a difficulty in {1, 2, 3}    *)
(* (an out-of-range or non-integer difficulty of the reply is replaced by  *)
(* 1, a card without a required field makes generation fail), so at the    *)
(* end of the session the per-difficulty counts are defined for every      *)
(* reviewed index and sum to the size of the reviewed set.                 *)
C30_DifficultiesInRange ==
  /\ [](CardsInRange /\ CoverageDefined)
  /\ [][GenerationChecked]_vars
  /\ [][CoverageSums]_vars

(* A set whose first and third cards got difficulty 1 in place of what the *)
(* reply gave; two cards were reviewed and the summary counted one of each *)
(* difficulty.                                                             *)
C30_Witness ==
  /\ cards = <<1, 2, 1>>
  /\ fc_summary.built
  /\ fc_summary.total_reviewed = 2
  /\ fc_summary.difficulty_reviewed[1] = 1
  /\ fc_summary.difficulty_reviewed[2] = 1

(* ----------------------------------------------------------------------- *)
RECURSIVE Joined(_)
(* The chunks of a list, one after the other.                              *)
Joined(list) == IF list = <<>> THEN <<>> ELSE Head(list) \o Joined(Tail(list))

(* Every chunk has 1 to 1900 characters and only the last may have fewer   *)
(* than 1900.                                                              *)
ChunkSizes ==
  \A k \in 1..Len(ch_chunks) :
    /\ 1 <= Len(ch_chunks[k]) /\ Len(ch_chunks[k]) <= 1900
    /\ k < Len(ch_chunks) => Len(ch_chunks[k]) = 1900

(* The chunks sent so far are the first chunks of the list, in its order;  *)
(* when the loop ends without an error all of them were sent.              *)
SentInOrder ==
  /\ Len(ch_sent) <= Len(ch_chunks)
  /\ \A k \in 1..Len(ch_sent) : ch_sent[k] = ch_chunks[k]
  /\ cpc = "done" => ch_sent = ch_chunks

(* C31: a non-empty result text is split into consecutive chunks of 1 to   *)
(* 1900 characters, only the last of which may be shorter than 1900; the   *)
(* chunks joined in the order they are sent give the text back; they are   *)
(* sent in order.                                                          *)
C31_ChunksRebuildText ==
  (cpc # "idle" /\ ch_text # <<>>) =>
    /\ ch_chunks # <<>>
    /\ ChunkSizes
    /\ Joined(ch_chunks) = ch_text
    /\ SentInOrder
    /\ cpc = "done" => Joined(ch_sent) = ch_text

(* A text of two full chunks and a last one of two characters was sent.    *)
C31_Witness ==
  /\ cpc = "done"
  /\ Len(ch_text) = 2 * 1900 + 2
  /\ Len(ch_sent) = 3
  /\ Len(ch_sent[3]) = 2

(* ----------------------------------------------------------------------- *)
(* What one call gave for the status of its response.                      *)
Classified(call) ==
  LET st == call.response.status
      res == call.result
  IN  /\ (st >= 200 /\ st <= 299) =>
            ~res.raised /\ res.type = "bytes" /\ res.content = call.response.body
      /\ st = 401 => res.raised /\ res.reason = "failed: invalid_key"
      /\ st = 429 => res.raised /\ res.reason = "rate_limit"
      /\ st = 400 => res.raised /\ res.reason = "bad_request"
      /\ (st > 0 /\ (st < 200 \/ st > 299) /\ st \notin {400, 401, 429}) =>
            res.raised /\ res.reason = "provider_error" /\ res.code = st

(* A failure is a ValueError and never a byte buffer: bytes are returned   *)
(* for a 2xx response to a request made with a key, and only for one.      *)
FailuresRaise(call) ==
  /\ call.result.raised => call.result.type = "ValueError"
  /\ ~call.result.raised <=>
       (call.has_key /\ call.response.status >= 200 /\ call.response.status <= 299)

(* C32: generate_audio classifies the response by its status: 2xx returns  *)
(* the audio bytes; 401 is an invalid-credential error, 429 a rate-limit   *)
(* error, 400 a bad-request error and any other non-2xx status a provider  *)
(* error carrying the status; every failure reaches the caller as a        *)
(* ValueError, never as returned bytes.                                    *)
C32_StatusClassified ==
  \A k \in 1..Len(ga_calls) :
    /\ ga_calls[k].has_key => Classified(ga_calls[k])
    /\ FailuresRaise(ga_calls[k])

(* A redirect answered the first call and audio the second.                *)
C32_Witness ==
  /\ Len(ga_calls) = 2
  /\ ga_calls[1].has_key /\ ga_calls[1].response.status = 301
  /\ ga_calls[1].result.reason = "provider_error"
  /\ ga_calls[2].has_key /\ ga_calls[2].response.status = 200
  /\ ~ga_calls[2].result.raised

(* ----------------------------------------------------------------------- *)
(* The rows of the last leaderboard are in non-increasing order of score   *)
(* and no player has two rows.                                             *)
RowsRanked ==
  \A i, j \in 1..Len(lb_list) :
    i < j => /\ lb_list[i].score >= lb_list[j].score
             /\ lb_list[i].player # lb_list[j].player

(* A leaderboard shows participants of the session with the scores they    *)
(* have when it is sent.                                                   *)
RowsOfSession ==
  lb_list' # lb_list =>
    \A i \in 1..Len(lb_list') :
      /\ lb_list'[i].player \in participants
      /\ lb_list'[i].player \in DOMAIN scores
      /\ lb_list'[i].score = scores[lb_list'[i].player]

(* The final leaderboard is sent when every question was revealed and the  *)
(* session is still in the store.                                          *)
FinalAfterLast ==
  (final_shown' /\ ~final_shown) =>
    /\ Len(reveals) = Len(questions)
    /\ qi = Len(questions)
    /\ QuizId \in active_quizzes

(* A quiz that ran without an error leaves the store only with its final   *)
(* leaderboard shown.                                                      *)
RemovedAfterFinal ==
  (started /\ QuizId \in active_quizzes /\ QuizId \notin active_quizzes'
     /\ ~quiz_raised')
    => final_shown'

(* C33: the quiz leaderboard is ranked: display_leaderboard lists          *)
(* participants of the session in non-increasing order of score, each at   *)
(* most once, and the final leaderboard is shown after the last question   *)
(* and before the session leaves active_quizzes.                           *)
C33_LeaderboardRanked ==
  /\ []RowsRanked
  /\ [][RowsOfSession]_vars
  /\ [][FinalAfterLast]_vars
  /\ [][RemovedAfterFinal]_vars

(* The final leaderboard of two players with different scores, both of     *)
(* whom scored.                                                            *)
C33_Witness ==
  /\ final_shown
  /\ Len(lb_list) = 2
  /\ lb_list[1].score > lb_list[2].score
  /\ lb_list[2].score > 0

(* ----------------------------------------------------------------------- *)
(* After cleanup_old_files(h) no file older than h hours is left.          *)
PurgeLeavesNoOld(h) ==
  CleanupOldFiles(h) => \A f \in stored' : ~TooOld(f, h)

(* cleanup_old_files(h) leaves every file that is not older than h hours.  *)
PurgeKeepsRecent(h) ==
  CleanupOldFiles(h) => \A f \in stored : ~TooOld(f, h) => f \in stored'

(* What cleanup_old_files(h) does leave: nothing old in the directories it *)
(* walks through.                                                          *)
PurgeLeavesNoOldWalked(h) ==
  CleanupOldFiles(h) => \A f \in stored' : f.dir \in PurgedDirs => ~TooOld(f, h)

PurgeOfWalkedDirs ==
  [][\A h \in Hours : PurgeLeavesNoOldWalked(h) /\ PurgeKeepsRecent(h)]_vars

(* C34: when cleanup_old_files(h) has completed, no stored file (uploaded  *)
(* document or generated audio) older than h hours remains, and every      *)
(* stored file that is not older than h hours is still in place.           *)
C34_PurgeByAge ==
  [][\A h \in Hours : PurgeLeavesNoOld(h) /\ PurgeKeepsRecent(h)]_vars

(* ----------------------------------------------------------------------- *)
(* The reaction wait_for hands over for a participant is the first one the *)
(* participant added in the window: none of theirs was missed before.      *)
FirstIsEvaluated ==
  \A u \in Users :
    (u \in answered_users' /\ u \notin answered_users /\ qi' = qi)
      => u \notin MissedUsers

(* When the window of a question closes, every participant who reacted in  *)
(* it has been evaluated.                                                  *)
NoneLeftOut ==
  (qpc \in {"answer_wait", "answer_ack"} /\ qpc' = "reveal")
    => MissedUsers \subseteq answered_users

(* C35: in the answer window of a question no answer of a participant is   *)
(* lost: the first option reaction a participant adds in the window is the *)
(* one evaluated, also when it arrives while run_quiz is sending a message *)
(* and not waiting for reactions.                                          *)
C35_NoAnswerLost ==
  /\ [][FirstIsEvaluated]_vars
  /\ [][NoneLeftOut]_vars

(* ----------------------------------------------------------------------- *)
(* A step in which the handler of a mark or of the next-card control ran   *)
(* its synchronous part.                                                   *)
JudgmentHandled ==
  /\ fc_controls' = fc_controls + 1
  /\ stats' # stats \/ idx_log' # idx_log

(* C36: a displayed card message triggers at most one judgment or advance: *)
(* of two mark or next-card reactions added to the same tracked message    *)
(* before the next card is displayed and tracked, only one changes the     *)
(* counters and the index.                                                 *)
C36_OneJudgmentPerMessage ==
  [][JudgmentHandled => last_judged' # last_judged]_vars

(* ----------------------------------------------------------------------- *)
(* The sessions some end_whiteboard call in progress is summarizing.       *)
Ending == {wb_end[k].sid : k \in 1..Len(wb_end)}

(* A message posted while a session is being summarized is not taken up    *)
(* for that session: on_message appends to the images and the participants *)
(* of the session it has taken the message up for.                         *)
ClosedToInput ==
  Len(wb_msg') = Len(wb_msg) + 1 => wb_msg'[Len(wb_msg')].sid \notin Ending

(* No session is being summarized by two end_whiteboard calls.             *)
NoSecondSummary ==
  \A i, j \in 1..Len(wb_end) : i # j => wb_end[i].sid # wb_end[j].sid

(* C37: once end_whiteboard has begun for a session the session is closed  *)
(* to input: an image posted while the summary is generated is not added   *)
(* to its images or contributors, the summary covers the images collected  *)
(* before the end, and a second end_whiteboard meanwhile does not          *)
(* summarize the session again.                                            *)
C37_ClosedOnceEnding ==
  /\ [][ClosedToInput]_vars
  /\ []NoSecondSummary

(* ----------------------------------------------------------------------- *)
(* A step in which the handler of the end control built a summary and went *)
(* on to send it.                                                          *)
EndHandled ==
  /\ Len(fc_tasks') = Len(fc_tasks) + 1
  /\ fc_tasks'[Len(fc_tasks')].pc = "end_send"

(* The summary is built once.                                              *)
SummaryOnce == EndHandled => ~fc_summary.built

(* Once the summary is built the statistics are final.                     *)
StatsFinal == fc_summary.built => stats' = stats

(* C38: the end summary of a flashcard session is emitted at most once and *)
(* reports final statistics: a control reaction that arrives after the end *)
(* control was triggered and before the set is removed changes no          *)
(* statistics, and a second end control gives no second summary.           *)
C38_SummaryOnceAndFinal ==
  /\ [][SummaryOnce]_vars
  /\ [][StatsFinal]_vars

(* ----------------------------------------------------------------------- *)
(* In a running quiz the keys of scores are the participants, and no score *)
(* is negative.                                                            *)
ScoresOfParticipants ==
  started =>
    /\ DOMAIN scores = participants
    /\ \A u \in DOMAIN scores : scores[u] >= 0

(* Once the quiz runs, the participants are fixed.                         *)
ParticipantsFixed ==
  started => participants' = participants /\ DOMAIN scores' = DOMAIN scores

(* A step of a running quiz raises a score by nothing or by 100 to 200     *)
(* points, and raises it only for a participant who had not answered the   *)
(* question asked and now has: once per question.                          *)
RaisedOncePerQuestion ==
  started =>
    \A u \in DOMAIN scores \cap DOMAIN scores' :
      /\ scores'[u] - scores[u] \in {0} \cup (max_points..(2 * max_points))
      /\ scores'[u] # scores[u] =>
           /\ u \notin answered_users /\ u \in answered_users'
           /\ qi' = qi

IndexInDeck ==
  SetId \in active_flashcard_sets =>
    /\ Len(cards) >= 1
    /\ current_card \in 0..(Len(cards) - 1)

(* The card a suspended show_flashcard has read is a card of the deck, and *)
(* so is the card a suspended mark was made for.                           *)
ShownInDeck ==
  \A k \in 1..Len(fc_tasks) :
    /\ fc_tasks[k].pc = "show" => fc_tasks[k].shown \in 0..(Len(cards) - 1)
    /\ fc_tasks[k].pc = "marked" =>
         fc_tasks[k].current_card_idx \in 0..(Len(cards) - 1)

(* C40: in every reachable state of a flashcard session the deck is not    *)
(* empty and 0 <= current_card < number of cards, so that showing the      *)
(* current card and advancing modulo the size of the deck are defined      *)
(* after any sequence of control reactions.                                *)
C40_IndexInRange == IndexInDeck /\ ShownInDeck

(* A set of two cards whose index has come back to the first card after    *)
(* going through the deck.                                                 *)
C40_Witness ==
  /\ SetId \in active_flashcard_sets
  /\ Len(cards) = 2
  /\ Len(idx_log) >= 3
  /\ current_card = 0

====
